---- MODULE Spec2Model ----
(***************************************************************************)
(* A model of the send path of mvfst (QuicTransportFunctions.cpp,          *)
(* IoBufQuicBatch.cpp): the write-reason classifier, updateConnection and  *)
(* the stream buffers it maintains, the batch writer's flush, and the      *)
(* transmission loop.  Each family of operations has its own               *)
(* specification over the shared variables; the variables a specification  *)
(* does not use stay at their initial value.                               *)
(***************************************************************************)
EXTENDS Integers, Sequences, FiniteSets, TLC

VARIABLES
  conn,      \* the fields of QuicConnectionStateBase that shouldWriteData reads
  reason,    \* the WriteDataReason of the last shouldWriteData call, or "none"
  streams,   \* the stream-like write state of the stream and the crypto streams
  written,   \* per stream, every byte the application has handed over so far
  streamLog, \* what has happened to the streams so far (acks, partial resends)
  checkFailed, \* the CHECK that aborted the process, or "none"
  outstandings, \* conn.outstandings.packets, front first
  nextPacketNum, \* per packet number space, the ack state's nextPacketNum
  pendingEvents, \* conn.pendingEvents, the part updateConnection writes
  lossState,  \* conn.lossState, the counters updateConnection writes
  notified,   \* onPacketSent calls made so far: congestion controller, pacer
  lastPacket, \* the packet of the last updateConnection call
  ioBufBatch, \* the IOBufQuicBatch: threadLocal_, pktSent_, packets buffered
  happyEyeballsState, \* conn.happyEyeballsState, the part flushInternal uses
  errno,      \* the thread's errno
  readPaused, \* per socket, whether pauseRead has been called on it
  flushLog,   \* what the last flush of the batch did
  loop,       \* where writeConnectionDataToSocket stands
  implicitAck, \* per encryption level, what implicitAckCryptoStream did
  looper,     \* the FunctionLooper: its fields and its pending callbacks
  build       \* the data path of the connection and what its last run did

wrVars == <<conn, reason>>

streamVars == <<streams, written, streamLog>>

connVars ==
  <<outstandings, nextPacketNum, pendingEvents, lossState, notified, lastPacket>>

batchVars == <<ioBufBatch, happyEyeballsState, errno, readPaused, flushLog>>

\* The variables of the handshake, of the looper and of the packet pipeline.
restVars == <<implicitAck, looper, build>>

vars ==
  <<conn, reason, streams, written, streamLog, checkFailed, outstandings,
    nextPacketNum, pendingEvents, lossState, notified, lastPacket, ioBufBatch,
    happyEyeballsState, errno, readPaused, flushLog, loop, implicitAck,
    looper, build>>

(***************************************************************************)
(* Bounds.                                                                 *)
(***************************************************************************)
\* Largest value of the congestion controller's writable bytes and of the
\* path validation limiter's credit.
MaxWritableBytes == 1

\* The connection's udpSendPacketLen (a per-connection setting).
MaxUdpSendPacketLen == 2

\* Bytes the application writes, all streams together.
MaxStreamBytes == 4

\* Packet numbers used up, all packet number spaces together.
MaxPackets == 2

\* Packets a batch writer buffers before its append asks for a flush.
MaxBatchSize == 2

\* The packets sent while the handshake is under way.
MaxHandshakePackets == 3

\* The longest packet header, the longest packet body and the largest
\* cipher overhead of an aead.
MaxHeaderLen == 1

MaxBodyLen == 2

MaxCipherOverhead == 1

\* The calls of writeConnectionDataToSocket made one after the other.
MaxCalls == 3

\* The bytes a packet builder has put into the connection's buffer when
\* the scheduler gives the packet up.
MaxAppended == 1

\* The bytes the retransmission and the clone counters of the loss state
\* count up to, taken together.
MaxCountedBytes == 2

\* The calls of the looped function, and the delay the pacing function
\* answers with.
MaxLoops == 3

MaxPacingDelay == 1

\* std::numeric_limits<uint64_t>::max(): the largest integer of the model
\* stands for it; every byte count of the model is far below it.
UInt64Max == 2147483647

\* folly::none / a null pointer, for a field that otherwise holds a number.
Absent == 0 - 1

None == "none"

Min(a, b) == IF a < b THEN a ELSE b

Max(a, b) == IF a > b THEN a ELSE b

PacketNumberSpaces == {"Initial", "Handshake", "AppData"}

CryptoStreams == {"initialStream", "handshakeStream", "oneRttStream"}

(***************************************************************************)
(* The write-reason classifier.                                            *)
(***************************************************************************)

\* An ack state as the classifier sees it: the result of hasAcksToSchedule
\* and the needsToSendAckImmediately flag.
AckStateViews == [hasAcksToSchedule : BOOLEAN, needsToSendAckImmediately : BOOLEAN]

NoAckView == [hasAcksToSchedule |-> FALSE, needsToSendAckImmediately |-> FALSE]

\* A crypto stream as the classifier sees it: the lengths of its write buffer
\* and of its loss buffer.
NoCryptoData == [writeBuffer |-> 0, lossBuffer |-> 0]

cryptoHasWritableData(c) ==
  \/ c.initialWriteCipher /\
       (c.cryptoState["initialStream"].writeBuffer # 0 \/
        c.cryptoState["initialStream"].lossBuffer # 0)
  \/ c.handshakeWriteCipher /\
       (c.cryptoState["handshakeStream"].writeBuffer # 0 \/
        c.cryptoState["handshakeStream"].lossBuffer # 0)
  \/ c.oneRttWriteCipher /\
       (c.cryptoState["oneRttStream"].writeBuffer # 0 \/
        c.cryptoState["oneRttStream"].lossBuffer # 0)

toWriteInitialAcks(c) ==
  /\ c.initialWriteCipher
  /\ c.ackStates["Initial"].hasAcksToSchedule
  /\ c.ackStates["Initial"].needsToSendAckImmediately

\* A copy-paste slip: the Handshake check reads the Initial cipher.
toWriteHandshakeAcks_initialCipher(c) ==
  /\ c.initialWriteCipher
  /\ c.ackStates["Handshake"].hasAcksToSchedule
  /\ c.ackStates["Handshake"].needsToSendAckImmediately

toWriteHandshakeAcks(c) ==
  /\ c.handshakeWriteCipher
  /\ c.ackStates["Handshake"].hasAcksToSchedule
  /\ c.ackStates["Handshake"].needsToSendAckImmediately

toWriteAppDataAcks(c) ==
  /\ c.oneRttWriteCipher
  /\ c.ackStates["AppData"].hasAcksToSchedule
  /\ c.ackStates["AppData"].needsToSendAckImmediately

hasAckDataToWrite(c) ==
  toWriteInitialAcks(c) \/ toWriteHandshakeAcks(c) \/ toWriteAppDataAcks(c)

\* The CHECKs of congestionControlWritableBytes: a pending path validation
\* needs the limiter and excludes the 0-RTT writable bytes limit.
congestionControlChecks(c) ==
  (c.pathChallenge \/ c.outstandingPathValidation) =>
    (c.pathValidationLimiter # Absent /\ c.writableBytesLimit = Absent)

congestionControlWritableBytes(c) ==
  LET limited ==
        IF c.pathChallenge \/ c.outstandingPathValidation
          THEN c.pathValidationLimiter
          ELSE IF c.writableBytesLimit # Absent
            THEN c.writableBytesLimit - c.totalBytesSent
            ELSE UInt64Max
      writableBytes ==
        IF c.congestionController # Absent
          THEN Min(limited, c.congestionController)
          ELSE limited
  IN  IF ~(c.pathChallenge \/ c.outstandingPathValidation)
         /\ c.writableBytesLimit # Absent
         /\ c.writableBytesLimit <= c.totalBytesSent
        THEN 0
        ELSE IF writableBytes = UInt64Max
          THEN writableBytes
          ELSE ((writableBytes + c.udpSendPacketLen - 1) \div c.udpSendPacketLen)
                 * c.udpSendPacketLen

\* A slip in the priority order: blocked streams are looked at after stream data.
hasNonAckDataToWrite_streamFirst(c) ==
  IF cryptoHasWritableData(c) THEN "CRYPTO_STREAM"
  ELSE IF ~c.oneRttWriteCipher /\ ~c.zeroRttWriteCipher THEN "NO_WRITE"
  ELSE IF c.resets # 0 THEN "RESET"
  ELSE IF c.hasWindowUpdates THEN "STREAM_WINDOW_UPDATE"
  ELSE IF c.connWindowUpdate THEN "CONN_WINDOW_UPDATE"
  ELSE IF c.sendConnFlowControlBytesWire # 0 /\ c.hasWritable THEN "STREAM"
  ELSE IF c.hasBlocked THEN "BLOCKED"
  ELSE IF c.frames # 0 THEN "SIMPLE"
  ELSE IF c.pathChallenge THEN "PATHCHALLENGE"
  ELSE IF c.sendPing THEN "PING"
  ELSE "NO_WRITE"

hasNonAckDataToWrite(c) ==
  IF cryptoHasWritableData(c) THEN "CRYPTO_STREAM"
  ELSE IF ~c.oneRttWriteCipher /\ ~c.zeroRttWriteCipher THEN "NO_WRITE"
  ELSE IF c.resets # 0 THEN "RESET"
  ELSE IF c.hasWindowUpdates THEN "STREAM_WINDOW_UPDATE"
  ELSE IF c.connWindowUpdate THEN "CONN_WINDOW_UPDATE"
  ELSE IF c.hasBlocked THEN "BLOCKED"
  ELSE IF c.sendConnFlowControlBytesWire # 0 /\ c.hasWritable THEN "STREAM"
  ELSE IF c.frames # 0 THEN "SIMPLE"
  ELSE IF c.pathChallenge THEN "PATHCHALLENGE"
  ELSE IF c.sendPing THEN "PING"
  ELSE "NO_WRITE"

\* A slip in the priority order: the congestion window is looked at before
\* the acks.
shouldWriteData_cwndFirst(c) ==
  IF c.numProbePackets # 0 THEN "PROBES"
  ELSE IF congestionControlWritableBytes(c) = 0 THEN "NO_WRITE"
  ELSE IF hasAckDataToWrite(c) THEN "ACK"
  ELSE hasNonAckDataToWrite(c)

shouldWriteData(c) ==
  IF c.numProbePackets # 0 THEN "PROBES"
  ELSE IF hasAckDataToWrite(c) THEN "ACK"
  ELSE IF congestionControlWritableBytes(c) = 0 THEN "NO_WRITE"
  ELSE hasNonAckDataToWrite(c)

\* A connection state as the classifier reads it.
MakeConn(np, ci, av, cd, pc, cc, pe) ==
    [numProbePackets |-> np,
     initialWriteCipher |-> ci[1], handshakeWriteCipher |-> ci[2],
     oneRttWriteCipher |-> ci[3], zeroRttWriteCipher |-> ci[4],
     ackStates |-> av, cryptoState |-> cd,
     pathChallenge |-> pc[1], outstandingPathValidation |-> FALSE,
     pathValidationLimiter |-> pc[2],
     writableBytesLimit |-> Absent, totalBytesSent |-> 0,
     congestionController |-> cc, udpSendPacketLen |-> MaxUdpSendPacketLen,
     resets |-> pe.resets, hasWindowUpdates |-> pe.hasWindowUpdates,
     connWindowUpdate |-> pe.connWindowUpdate, hasBlocked |-> pe.hasBlocked,
     sendConnFlowControlBytesWire |-> pe.sendConnFlowControlBytesWire,
     hasWritable |-> pe.hasWritable, frames |-> pe.frames,
     sendPing |-> pe.sendPing]

\* The connection starts in any combination of the fields that the given
\* sets allow.
ConnInit(ciphers, ackViews, cryptoData, pending) ==
  \E np \in 0..1, ci \in ciphers, av \in ackViews, cd \in cryptoData,
     pc \in ({<<FALSE, Absent>>} \cup {<<TRUE, w>> : w \in 0..MaxWritableBytes}),
     cc \in ({Absent} \cup (0..MaxWritableBytes)), pe \in pending :
   conn = MakeConn(np, ci, av, cd, pc, cc, pe)

\* A connection with nothing pending, and the classifier not yet asked.
ClassifierIdle ==
  /\ conn = MakeConn(0, <<TRUE, FALSE, FALSE, FALSE>>,
                     [s \in PacketNumberSpaces |-> NoAckView],
                     [s \in CryptoStreams |-> NoCryptoData],
                     <<FALSE, Absent>>, Absent,
                     [resets |-> 0, hasWindowUpdates |-> FALSE,
                      connWindowUpdate |-> FALSE, hasBlocked |-> FALSE,
                      sendConnFlowControlBytesWire |-> 1, hasWritable |-> FALSE,
                      frames |-> 0, sendPing |-> FALSE])
  /\ reason = None

(***************************************************************************)
(* Stream-like write state: write buffer, retransmission buffer, loss      *)
(* buffer.                                                                 *)
(***************************************************************************)

StreamLikes == {"stream0"} \cup CryptoStreams

\* A QuicStreamLike.  writeBuffer is a byte sequence that logically starts at
\* currentWriteOffset; retransmissionBuffer is the map offset -> StreamBuffer,
\* held as the set of its StreamBuffers; lossBuffer is the deque of
\* StreamBuffers.  A StreamBuffer is [offset, data, eof].
EmptyStream ==
  [currentWriteOffset |-> 0, writeBuffer |-> <<>>, finalWriteOffset |-> Absent,
   retransmissionBuffer |-> {}, lossBuffer |-> <<>>]

\* The step before was not the write of a frame to a stream.
NoWrite ==
  [stream |-> None, frame |-> [offset |-> 0, len |-> 0, fin |-> FALSE],
   writtenNewData |-> FALSE]

NoStreamLog == [acked |-> FALSE, partial |-> FALSE, last |-> NoWrite]

StreamsIdle ==
  /\ streams = [s \in StreamLikes |-> EmptyStream]
  /\ written = [s \in StreamLikes |-> <<>>]
  /\ streamLog = NoStreamLog
  /\ checkFailed = None

\* BufQueue::splitAtMost: the first n bytes (or all of them) are split off.
splitAtMost(buf, n) ==
  LET k == Min(n, Len(buf))
  IN  [front |-> SubSeq(buf, 1, k), rest |-> SubSeq(buf, k + 1, Len(buf))]

HasOffset(bufs, off) == \E b \in bufs : b.offset = off

\* Removing the element at index i of a sequence.
RemoveAt(seq, i) == SubSeq(seq, 1, i - 1) \o SubSeq(seq, i + 1, Len(seq))

InsertAt(seq, i, e) == SubSeq(seq, 1, i - 1) \o <<e>> \o SubSeq(seq, i, Len(seq))

\* The result of a step that may hit a CHECK: the new value and the failed
\* CHECK ("none" when every CHECK held).
Ok(v) == [value |-> v, check |-> None]

Failed(v, what) == [value |-> v, check |-> what]

\* A slip: the retransmission buffer entry is keyed by the advanced cursor.
handleNewStreamDataWritten_keyedByEnd(stream, frameLen, frameFin) ==
  LET split == splitAtMost(stream.writeBuffer, frameLen)
      newOffset == stream.currentWriteOffset + frameLen + (IF frameFin THEN 1 ELSE 0)
  IN  Ok([stream EXCEPT
            !.currentWriteOffset = newOffset,
            !.writeBuffer = split.rest,
            !.retransmissionBuffer =
               @ \cup {[offset |-> newOffset, data |-> split.front,
                        eof |-> frameFin]}])

handleNewStreamDataWritten(stream, frameLen, frameFin) ==
  LET originalOffset == stream.currentWriteOffset
      split == splitAtMost(stream.writeBuffer, frameLen)
      after ==
        [stream EXCEPT
           !.currentWriteOffset = @ + frameLen + (IF frameFin THEN 1 ELSE 0),
           !.writeBuffer = split.rest,
           !.retransmissionBuffer =
              @ \cup {[offset |-> originalOffset, data |-> split.front,
                       eof |-> frameFin]}]
  IN  IF HasOffset(stream.retransmissionBuffer, originalOffset)
        THEN Failed(stream, "retransmissionBuffer.emplace")
        ELSE Ok(after)

\* A slip: the length alone decides, so a frame without the FIN of the entry
\* takes the entry away.
EntirelyRetransmitted_byLength(frameLen, frameFin, bufferLen, eof) ==
  frameLen = bufferLen

\* if (frameLen == bufferLen && frameFin == lossBufferIter->eof): the buffer
\* is entirely retransmitted.
EntirelyRetransmitted(frameLen, frameFin, bufferLen, eof) ==
  frameLen = bufferLen /\ frameFin = eof

\* A slip: the partly retransmitted loss buffer entry keeps its offset.
handleRetransmissionWritten_keepOffset(stream, frameOffset, frameLen, frameFin, i) ==
  LET entry == stream.lossBuffer[i]
      bufferLen == Len(entry.data)
      whole == frameLen = bufferLen /\ frameFin = entry.eof
      split == splitAtMost(entry.data, frameLen)
      bufWritten == IF whole THEN entry.data ELSE split.front
      lossBuffer ==
        IF whole
          THEN RemoveAt(stream.lossBuffer, i)
          ELSE [stream.lossBuffer EXCEPT ![i] = [@ EXCEPT !.data = split.rest]]
      after ==
        [stream EXCEPT
           !.lossBuffer = lossBuffer,
           !.retransmissionBuffer =
              @ \cup {[offset |-> frameOffset, data |-> bufWritten,
                       eof |-> frameFin]}]
  IN  IF HasOffset(stream.retransmissionBuffer, frameOffset)
        THEN Failed(stream, "retransmissionBuffer.emplace")
        ELSE Ok(after)

\* A slip: the bytes that stay in the loss buffer are the ones handed on.
handleRetransmissionWritten_wrongHalf(stream, frameOffset, frameLen, frameFin, i) ==
  LET entry == stream.lossBuffer[i]
      bufferLen == Len(entry.data)
      whole == frameLen = bufferLen /\ frameFin = entry.eof
      split == splitAtMost(entry.data, frameLen)
      bufWritten == IF whole THEN entry.data ELSE split.rest
      lossBuffer ==
        IF whole
          THEN RemoveAt(stream.lossBuffer, i)
          ELSE [stream.lossBuffer EXCEPT
                  ![i] = [@ EXCEPT !.offset = @ + frameLen, !.data = split.front]]
      after ==
        [stream EXCEPT
           !.lossBuffer = lossBuffer,
           !.retransmissionBuffer =
              @ \cup {[offset |-> frameOffset, data |-> bufWritten,
                       eof |-> frameFin]}]
  IN  IF HasOffset(stream.retransmissionBuffer, frameOffset)
        THEN Failed(stream, "retransmissionBuffer.emplace")
        ELSE Ok(after)

handleRetransmissionWritten(stream, frameOffset, frameLen, frameFin, i) ==
  LET entry == stream.lossBuffer[i]
      bufferLen == Len(entry.data)
      whole == EntirelyRetransmitted(frameLen, frameFin, bufferLen, entry.eof)
      split == splitAtMost(entry.data, frameLen)
      bufWritten == IF whole THEN entry.data ELSE split.front
      lossBuffer ==
        IF whole
          THEN RemoveAt(stream.lossBuffer, i)
          ELSE [stream.lossBuffer EXCEPT
                  ![i] = [@ EXCEPT !.offset = @ + frameLen, !.data = split.rest]]
      after ==
        [stream EXCEPT
           !.lossBuffer = lossBuffer,
           !.retransmissionBuffer =
              @ \cup {[offset |-> frameOffset, data |-> bufWritten,
                       eof |-> frameFin]}]
  IN  IF HasOffset(stream.retransmissionBuffer, frameOffset)
        THEN Failed(stream, "retransmissionBuffer.emplace")
        ELSE Ok(after)

\* std::lower_bound on the loss buffer: the first index whose offset is not
\* below off, Len + 1 when there is none.
LossLowerBound(lossBuffer, off) ==
  LET hits == {i \in 1..Len(lossBuffer) : lossBuffer[i].offset >= off}
  IN  IF hits = {} THEN Len(lossBuffer) + 1
      ELSE CHOOSE i \in hits : \A j \in hits : i <= j

\* A slip: a retransmission is counted with the cloned bytes.
CountRetransmission_asClone(connLossState, frameLen) ==
  [connLossState EXCEPT !.totalStreamBytesCloned = @ + frameLen]

\* conn.lossState.totalBytesRetransmitted += frameLen.
CountRetransmission(connLossState, frameLen) ==
  [connLossState EXCEPT !.totalBytesRetransmitted = @ + frameLen]

\* conn.lossState.totalStreamBytesCloned += frameLen.
CountClone(connLossState, frameLen) ==
  [connLossState EXCEPT !.totalStreamBytesCloned = @ + frameLen]

\* handleStreamWritten without the BufMeta (DSR) branches: the frame is new
\* data, a retransmission or a clone.  value is [stream, lossState, kind,
\* writtenNewData]: the stream and conn.lossState as the call leaves them,
\* and what the call returns.
handleStreamWritten(connLossState, stream, frameOffset, frameLen, frameFin) ==
  IF frameOffset = stream.currentWriteOffset
    THEN LET r == handleNewStreamDataWritten(stream, frameLen, frameFin)
         IN  [value |-> [stream |-> r.value, lossState |-> connLossState,
                         kind |-> "new", writtenNewData |-> TRUE],
              check |-> r.check]
    ELSE LET i == LossLowerBound(stream.lossBuffer, frameOffset)
         IN  IF i <= Len(stream.lossBuffer) /\ stream.lossBuffer[i].offset = frameOffset
               THEN LET r == handleRetransmissionWritten(
                                stream, frameOffset, frameLen, frameFin, i)
                    IN  [value |-> [stream |-> r.value,
                                    lossState |->
                                       IF r.check = None
                                         THEN CountRetransmission(connLossState, frameLen)
                                         ELSE connLossState,
                                    kind |-> "retx", writtenNewData |-> FALSE],
                         check |-> r.check]
               ELSE Ok([stream |-> stream,
                        lossState |-> CountClone(connLossState, frameLen),
                        kind |-> "clone", writtenNewData |-> FALSE])

\* ---- what the rest of the transport does to a stream ----

\* writeDataToQuicStream: the application appends data, and may end the stream.
writeDataToQuicStream(stream, data, eof) ==
  [stream EXCEPT
     !.writeBuffer = @ \o data,
     !.finalWriteOffset =
        IF eof THEN stream.currentWriteOffset + Len(stream.writeBuffer) + Len(data)
        ELSE @]

\* Loss of the packet that carried the frame at off: the retransmission
\* buffer entry moves to the loss buffer, which stays sorted by offset.
markStreamFrameLost(stream, off) ==
  LET e == CHOOSE b \in stream.retransmissionBuffer : b.offset = off
      above == {i \in 1..Len(stream.lossBuffer) : stream.lossBuffer[i].offset > off}
      at == IF above = {} THEN Len(stream.lossBuffer) + 1
            ELSE CHOOSE i \in above : \A j \in above : i <= j
  IN  [stream EXCEPT
         !.retransmissionBuffer = @ \ {e},
         !.lossBuffer = InsertAt(@, at, e)]

\* Acknowledgement of the frame at off: the retransmission buffer entry goes.
processStreamFrameAck(stream, off) ==
  [stream EXCEPT
     !.retransmissionBuffer = {b \in @ : b.offset # off}]

\* ---- the frames a scheduler writes for a stream ----

\* New data: from the write cursor, any length the write buffer holds; FIN
\* goes with the last byte once the application has ended the stream.
NewDataFrames(stream) ==
  { [offset |-> stream.currentWriteOffset, len |-> n,
     fin |-> (stream.finalWriteOffset # Absent /\ n = Len(stream.writeBuffer))] :
      n \in { m \in 0..Len(stream.writeBuffer) :
                m > 0 \/ (stream.finalWriteOffset # Absent
                          /\ Len(stream.writeBuffer) = 0
                          /\ stream.currentWriteOffset <= stream.finalWriteOffset) } }

\* A retransmission: from the start of a loss buffer entry, all of it or a
\* prefix; the entry's FIN goes with its last byte, or is left for a later
\* frame.
RetransmissionFrames(stream) ==
  UNION { { f \in [offset : {stream.lossBuffer[i].offset},
                   len : 0..Len(stream.lossBuffer[i].data), fin : BOOLEAN] :
              /\ f.len > 0 \/ f.fin
              /\ f.fin => (stream.lossBuffer[i].eof
                            /\ f.len = Len(stream.lossBuffer[i].data)) } :
          i \in 1..Len(stream.lossBuffer) }

\* A clone: the frame of an outstanding packet, whose data the
\* retransmission buffer still holds.
CloneFrames(stream) ==
  { [offset |-> b.offset, len |-> Len(b.data), fin |-> b.eof] :
      b \in stream.retransmissionBuffer }

BytesWritten == 
  LET RECURSIVE Sum(_)
      Sum(S) == IF S = {} THEN 0
                ELSE LET s == CHOOSE x \in S : TRUE
                     IN  Len(written[s]) + Sum(S \ {s})
  IN  Sum(StreamLikes)

\* ---- the specification of the stream buffers ----

\* The streams that carry data in this specification: the application
\* stream and one crypto stream.
ActiveStreams == {"stream0", "initialStream"}

AppWrite(s) ==
  /\ checkFailed = None
  /\ streams[s].finalWriteOffset = Absent
  /\ \E eof \in BOOLEAN :
       LET b == Len(written[s])  \* each byte is the position it is written at
       IN  /\ BytesWritten < MaxStreamBytes
           /\ eof => s = "stream0"
           /\ streams' = [streams EXCEPT ![s] = writeDataToQuicStream(@, <<b>>, eof)]
           /\ written' = [written EXCEPT ![s] = @ \o <<b>>]
  /\ streamLog' = [streamLog EXCEPT !.last = NoWrite]
  /\ UNCHANGED <<restVars, checkFailed, wrVars, connVars, batchVars, loop>>

StreamFrameWritten(s, frame, partial) ==
  /\ checkFailed = None
  /\ LET r == handleStreamWritten(
                lossState, streams[s], frame.offset, frame.len, frame.fin)
     IN  /\ r.value.lossState.totalBytesRetransmitted
              + r.value.lossState.totalStreamBytesCloned <= MaxCountedBytes
         /\ streams' = [streams EXCEPT ![s] = r.value.stream]
         /\ lossState' = r.value.lossState
         /\ streamLog' =
              [streamLog EXCEPT
                 !.partial = @ \/ partial,
                 !.last = [stream |-> s, frame |-> frame,
                           writtenNewData |-> r.value.writtenNewData]]
         /\ checkFailed' = r.check
  /\ UNCHANGED <<restVars, written, wrVars, outstandings, nextPacketNum,
                 pendingEvents, notified, lastPacket, batchVars, loop>>

WriteNewData(s) ==
  \E f \in NewDataFrames(streams[s]) : StreamFrameWritten(s, f, FALSE)

WriteRetransmission(s) ==
  \E f \in RetransmissionFrames(streams[s]) :
    StreamFrameWritten(s, f,
      \E i \in 1..Len(streams[s].lossBuffer) :
         /\ streams[s].lossBuffer[i].offset = f.offset
         /\ ~EntirelyRetransmitted(f.len, f.fin, Len(streams[s].lossBuffer[i].data),
                                   streams[s].lossBuffer[i].eof))

WriteClone(s) ==
  \E f \in CloneFrames(streams[s]) : StreamFrameWritten(s, f, FALSE)

StreamFrameLost(s) ==
  /\ checkFailed = None
  /\ \E b \in streams[s].retransmissionBuffer :
       streams' = [streams EXCEPT ![s] = markStreamFrameLost(@, b.offset)]
  /\ streamLog' = [streamLog EXCEPT !.last = NoWrite]
  /\ UNCHANGED <<restVars, written, checkFailed, wrVars, connVars, batchVars, loop>>

StreamFrameAcked(s) ==
  /\ checkFailed = None
  /\ \E b \in streams[s].retransmissionBuffer :
       streams' = [streams EXCEPT ![s] = processStreamFrameAck(@, b.offset)]
  /\ streamLog' = [streamLog EXCEPT !.acked = TRUE, !.last = NoWrite]
  /\ UNCHANGED <<restVars, written, checkFailed, wrVars, connVars, batchVars, loop>>

NoException == [type |-> "none", code |-> "none"]

NoFlushLog ==
  [attempted |-> FALSE, flushed |-> FALSE, writes |-> <<>>, ret |-> TRUE,
   thrown |-> NoException, left |-> 0]

\* A batch and its sockets before anything has been written.
BatchIdle ==
  /\ ioBufBatch = [threadLocal |-> FALSE, pktSent |-> 0, size |-> 0]
  /\ happyEyeballsState =
       [shouldWriteToFirstSocket |-> TRUE, shouldWriteToSecondSocket |-> FALSE,
        connAttemptDelayTimeout |-> "none"]
  /\ errno = "0"
  /\ readPaused = [first |-> FALSE, second |-> FALSE]
  /\ flushLog = NoFlushLog
  /\ loop = [pc |-> "idle", pnSpace |-> "AppData", builds |-> 0,
             writeSuccess |-> TRUE]

\* implicitAckCryptoStream has not run for the level.
NoAckBlock == [start |-> Absent, end |-> Absent]

NoImplicitAck ==
  [calls |-> 0, ackBlock |-> NoAckBlock, acked |-> {}, lost |-> {}]

\* FunctionLooper::FunctionLooper: the looper is made with its event base
\* and its function, not running; fired counts the calls of func_ and
\* nextPacingTime is the last answer asked of the pacing function.
NewLooper ==
  [evb |-> TRUE, running |-> FALSE, inLoopBody |-> FALSE,
   pacingTimer |-> FALSE, pacingFunc |-> FALSE,
   loopCallbackScheduled |-> FALSE, timeoutScheduled |-> FALSE,
   fromTimer |-> FALSE, fired |-> 0, nextPacingTime |-> 0]

\* The data path of the connection before it has built a packet.
NoBuild(dataPathType) ==
  [dataPathType |-> dataPathType, scheduled |-> "none", buildSuccess |-> FALSE,
   encodedSize |-> 0, isD6DProbe |-> FALSE, handed |-> FALSE, logged |-> FALSE,
   prevSize |-> 0, appended |-> 0, bufAtFlush |-> Absent, bufLen |-> 0,
   ownsBuffer |-> TRUE]

\* No handshake event has happened, the looper has just been made, no
\* packet has been built.
RestIdle ==
  /\ implicitAck = [l \in {"Initial", "Handshake"} |-> NoImplicitAck]
  /\ looper = NewLooper
  /\ build = NoBuild("ContinuousMemory")

\* The send state of a connection on which nothing has been sent.
\* No packet has been passed to updateConnection yet.
NoPacket ==
  [space |-> "none", packetNum |-> Absent, isClone |-> FALSE,
   ackEliciting |-> FALSE, resetStream |-> None, ackFrames |-> 0,
   ackUpdates |-> 0, largestAckScheduled |-> Absent]

NoPendingEvents ==
  [setLossDetectionAlarm |-> FALSE, sendPing |-> FALSE, sendDataBlocked |-> FALSE,
   resets |-> {}]

ConnIdle ==
  /\ outstandings = <<>>
  /\ nextPacketNum = [s \in PacketNumberSpaces |-> 0]
  /\ pendingEvents = NoPendingEvents
  /\ lossState = [largestSent |-> Absent, totalPacketsSent |-> 0,
                  totalAckElicitingPacketsSent |-> 0,
                  totalBytesRetransmitted |-> 0,
                  totalStreamBytesCloned |-> 0]
  /\ notified = [congestionController |-> 0, pacer |-> 0]
  /\ lastPacket = NoPacket
  /\ BatchIdle

StreamInit ==
  /\ ClassifierIdle
  /\ StreamsIdle
  /\ ConnIdle
  /\ RestIdle

StreamNext ==
  \E s \in ActiveStreams :
    \/ AppWrite(s)
    \/ WriteNewData(s)
    \/ WriteRetransmission(s)
    \/ WriteClone(s)
    \/ StreamFrameLost(s)
    \/ StreamFrameAcked(s)

SpecStream == StreamInit /\ [][StreamNext]_vars

(***************************************************************************)
(* updateConnection.                                                       *)
(***************************************************************************)

FrameTypes ==
  {"WriteStreamFrame", "WriteCryptoFrame", "WriteAckFrame", "RstStreamFrame",
   "MaxDataFrame", "DataBlockedFrame", "MaxStreamDataFrame",
   "StreamDataBlockedFrame", "PingFrame", "QuicSimpleFrame", "PaddingFrame",
   "ConnectionCloseFrame"}

\* A frame: its type and, as the type needs them, the stream it names, the
\* offset, length and FIN of its data, the largest packet number it acks.
Frame(type, streamId, offset, len, fin, largestAcked) ==
  [type |-> type, streamId |-> streamId, offset |-> offset, len |-> len,
   fin |-> fin, largestAcked |-> largestAcked]

ControlFrame(type) == Frame(type, "stream0", 0, 0, FALSE, 0)

\* The packet contains a frame that is neither an ack frame nor padding.
HasAckElicitingFrame(frames) ==
  \E i \in 1..Len(frames) : frames[i].type \notin {"WriteAckFrame", "PaddingFrame"}

\* The offset of the crypto frame the packet holds, if it holds one: the
\* outstanding packet keeps the frames of the packet.
CryptoOffsetOf(frames) ==
  IF \E i \in 1..Len(frames) : frames[i].type = "WriteCryptoFrame"
    THEN (CHOOSE f \in { frames[i] : i \in 1..Len(frames) } :
            f.type = "WriteCryptoFrame").offset
    ELSE Absent

\* The stream the reset frame of the packet names, if the packet has one.
ResetStreamOf(frames) ==
  IF \E i \in 1..Len(frames) : frames[i].type = "RstStreamFrame"
    THEN (CHOOSE f \in { frames[i] : i \in 1..Len(frames) } :
            f.type = "RstStreamFrame").streamId
    ELSE None

\* A slip: the pending reset is kept when the packet is a clone.
EraseReset_unlessClone(resets, streamId, isClone) ==
  IF isClone THEN resets ELSE resets \ {streamId}

\* The reset of the stream is erased from pendingEvents.resets when it is
\* there, whether the packet is a clone or not.
EraseReset(resets, streamId, isClone) == resets \ {streamId}

\* The ack frames of the packet.
AckFramesOf(frames) ==
  Cardinality({i \in 1..Len(frames) : frames[i].type = "WriteAckFrame"})

\* DCHECK(!ackFrameCounter++): the build defines NDEBUG, which leaves
\* nothing of the DCHECK, the increment of the counter included.
DCheckAckFrameCounter(u) == u

\* updateAckSendStateOnSentPacketWithAcks: the ack state of the space takes
\* the largest packet number the frame acknowledges.
updateAckSendStateOnSentPacketWithAcks(u, largestAckedPacketWritten) ==
  [u EXCEPT !.ackUpdates = @ + 1,
            !.largestAckScheduled = largestAckedPacketWritten]

\* getCryptoStream for the encryption level of a packet number space.
CryptoStreamOf(space) ==
  CASE space = "Initial" -> "initialStream"
    [] space = "Handshake" -> "handshakeStream"
    [] OTHER -> "oneRttStream"

\* The per-frame switch of updateConnection.  u carries what the loop over
\* the frames writes and reads: the streams, the pending events, the locals
\* retransmittable, isHandshake, isPing, connWindowUpdateSent, and the first
\* CHECK that failed.  The bookkeeping the switch hands to the ack state and
\* to flow control lives in those components.
ApplyFrame(u, frame, space, isClone, isD6DProbe) ==
  CASE frame.type = "WriteStreamFrame" ->
         LET r == handleStreamWritten(
                    u.lossState, u.streams[frame.streamId], frame.offset,
                    frame.len, frame.fin)
         IN  [u EXCEPT !.retransmittable = TRUE,
                       !.streams[frame.streamId] = r.value.stream,
                       !.lossState = r.value.lossState,
                       !.check = r.check]
    [] frame.type = "WriteCryptoFrame" ->
         LET r == handleStreamWritten(
                    u.lossState, u.streams[CryptoStreamOf(space)], frame.offset,
                    frame.len, FALSE)
         IN  [u EXCEPT !.retransmittable = TRUE,
                       !.isHandshake = space \in {"Initial", "Handshake"},
                       !.streams[CryptoStreamOf(space)] = r.value.stream,
                       !.lossState = r.value.lossState,
                       !.check = r.check]
    [] frame.type = "WriteAckFrame" ->
         updateAckSendStateOnSentPacketWithAcks(
           DCheckAckFrameCounter(u), frame.largestAcked)
    [] frame.type = "RstStreamFrame" ->
         [u EXCEPT !.retransmittable = TRUE,
                   !.pendingEvents.resets = EraseReset(@, frame.streamId, isClone)]
    [] frame.type = "MaxDataFrame" ->
         IF u.connWindowUpdateSent # 0
           THEN [u EXCEPT !.check = "connWindowUpdateSent"]
           ELSE [u EXCEPT !.connWindowUpdateSent = 1, !.retransmittable = TRUE]
    [] frame.type = "DataBlockedFrame" ->
         [u EXCEPT !.retransmittable = TRUE,
                   !.pendingEvents.sendDataBlocked = FALSE]
    [] frame.type = "MaxStreamDataFrame" -> [u EXCEPT !.retransmittable = TRUE]
    [] frame.type = "StreamDataBlockedFrame" -> [u EXCEPT !.retransmittable = TRUE]
    [] frame.type = "PingFrame" ->
         [u EXCEPT !.isPing = TRUE,
                   !.pendingEvents.sendPing = IF isD6DProbe THEN @ ELSE FALSE]
    [] frame.type = "QuicSimpleFrame" -> [u EXCEPT !.retransmittable = TRUE]
    [] frame.type = "PaddingFrame" -> u
    [] OTHER -> [u EXCEPT !.retransmittable = TRUE]

RECURSIVE ApplyFrames(_, _, _, _, _)
ApplyFrames(u, frames, space, isClone, isD6DProbe) ==
  IF frames = <<>> \/ u.check # None THEN u
  ELSE ApplyFrames(ApplyFrame(u, Head(frames), space, isClone, isD6DProbe),
                   Tail(frames), space, isClone, isD6DProbe)

\* A slip: the position is looked for from the front, so the packet goes
\* before the first packet with a smaller number.
InsertPosition_fromFront(packets, packetNum) ==
  LET below == {i \in 1..Len(packets) : packets[i].packetNum < packetNum}
  IN  IF below = {} THEN Len(packets) + 1
      ELSE CHOOSE i \in below : \A j \in below : i <= j

\* std::find_if from the back for a packet with a smaller number, .base():
\* the position right after the last such packet, the front when none is.
InsertPosition(packets, packetNum) ==
  LET below == {i \in 1..Len(packets) : packets[i].packetNum < packetNum}
  IN  IF below = {} THEN 1
      ELSE (CHOOSE i \in below : \A j \in below : i >= j) + 1

\* A slip: a ping alone does not make the packet outstanding.
IsOutstandingPacket_noPing(retransmittable, isPing) == retransmittable

\* The test before the early return of updateConnection.
IsOutstandingPacket(retransmittable, isPing) == retransmittable \/ isPing

\* updateConnection(conn, packetEvent, packet, ...): packet is
\* [space, packetNum, frames, isClone, isD6DProbe]; hasCC and hasPacer tell
\* whether conn.congestionController and conn.pacer are set.
UpdateConnection(packet, hasCC, hasPacer) ==
  LET u0 == [streams |-> streams, pendingEvents |-> pendingEvents,
             lossState |-> lossState, retransmittable |-> FALSE,
             isHandshake |-> FALSE, isPing |-> FALSE,
             connWindowUpdateSent |-> 0, ackFrameCounter |-> 0,
             ackUpdates |-> 0, largestAckScheduled |-> Absent, check |-> None]
      u == ApplyFrames(u0, packet.frames, packet.space, packet.isClone,
                       packet.isD6DProbe)
      tracked == IsOutstandingPacket(u.retransmittable, u.isPing)
      record == [packetNum |-> packet.packetNum, space |-> packet.space,
                 isHandshake |-> u.isHandshake, associatedEvent |-> packet.isClone,
                 cryptoOffset |-> CryptoOffsetOf(packet.frames)]
  IN  /\ lastPacket' = [space |-> packet.space, packetNum |-> packet.packetNum,
                        isClone |-> packet.isClone,
                        ackEliciting |-> HasAckElicitingFrame(packet.frames),
                        resetStream |-> ResetStreamOf(packet.frames),
                        ackFrames |-> AckFramesOf(packet.frames),
                        ackUpdates |-> u.ackUpdates,
                        largestAckScheduled |-> u.largestAckScheduled]
      /\ checkFailed' = u.check
      /\ IF u.check # None
           THEN UNCHANGED <<streams, pendingEvents, nextPacketNum, lossState,
                            outstandings, notified>>
           ELSE /\ streams' = u.streams
                /\ nextPacketNum' = [nextPacketNum EXCEPT ![packet.space] = @ + 1]
                /\ pendingEvents' =
                     [u.pendingEvents EXCEPT
                        !.setLossDetectionAlarm = @ \/ u.retransmittable]
                /\ lossState' =
                     [u.lossState EXCEPT
                        !.largestSent =
                           IF @ = Absent THEN packet.packetNum
                           ELSE Max(@, packet.packetNum),
                        !.totalPacketsSent = @ + 1,
                        !.totalAckElicitingPacketsSent =
                           IF tracked THEN @ + 1 ELSE @]
                /\ outstandings' =
                     IF tracked
                       THEN InsertAt(outstandings,
                                     InsertPosition(outstandings, packet.packetNum),
                                     record)
                       ELSE outstandings
                /\ notified' =
                     IF tracked
                       THEN [congestionController |->
                               notified.congestionController + (IF hasCC THEN 1 ELSE 0),
                             pacer |-> notified.pacer + (IF hasPacer THEN 1 ELSE 0)]
                       ELSE notified

\* ---- the packets a scheduler builds ----

\* A scheduler fills a packet in a fixed order, with at most one ack frame,
\* at most one frame of stream or crypto data and, here, at most one other
\* frame.  A clone carries the frames of an outstanding packet again, and so
\* never an ack frame.
AckFramesFor(isClone) ==
  IF isClone THEN {<<>>} ELSE {<<>>, <<Frame("WriteAckFrame", "stream0", 0, 0, FALSE, 0)>>}

DataFramesOf(stream, isClone) ==
  IF isClone THEN CloneFrames(stream)
  ELSE NewDataFrames(stream) \cup RetransmissionFrames(stream)

DataFramesFor(space, isClone) ==
  {<<>>}
    \cup { <<Frame("WriteCryptoFrame", CryptoStreamOf(space), f.offset, f.len, FALSE, 0)>> :
             f \in DataFramesOf(streams[CryptoStreamOf(space)], isClone) }
    \cup (IF space = "AppData"
            THEN { <<Frame("WriteStreamFrame", "stream0", f.offset, f.len, f.fin, 0)>> :
                     f \in DataFramesOf(streams["stream0"], isClone) }
            ELSE {})

ControlFramesFor ==
  {<<>>}
    \cup { <<ControlFrame(t)>> :
             t \in FrameTypes \ {"WriteStreamFrame", "WriteCryptoFrame", "WriteAckFrame"} }

PacketsFor(space, isClone) ==
  { a \o d \o c :
      a \in AckFramesFor(isClone), d \in DataFramesFor(space, isClone),
      c \in ControlFramesFor } \ {<<>>}

\* ---- the specification of updateConnection ----

\* Application data waiting in the write buffers when the specification starts.
UCStreams ==
  [s \in StreamLikes |->
     IF s \in {"stream0", "initialStream"}
       THEN writeDataToQuicStream(EmptyStream, <<0>>, FALSE)
       ELSE EmptyStream]

\* A connection with data and control frames waiting, nothing sent yet.
ConnWithData ==
  /\ ClassifierIdle
  /\ streams = UCStreams
  /\ written = [s \in StreamLikes |-> UCStreams[s].writeBuffer]
  /\ streamLog = NoStreamLog
  /\ checkFailed = None
  /\ outstandings = <<>>
  /\ nextPacketNum = [s \in PacketNumberSpaces |-> 0]
  /\ pendingEvents = [setLossDetectionAlarm |-> FALSE, sendPing |-> TRUE,
                      sendDataBlocked |-> TRUE, resets |-> {"stream0"}]
  /\ lossState = [largestSent |-> Absent, totalPacketsSent |-> 0,
                  totalAckElicitingPacketsSent |-> 0,
                  totalBytesRetransmitted |-> 0,
                  totalStreamBytesCloned |-> 0]
  /\ notified = [congestionController |-> 0, pacer |-> 0]
  /\ lastPacket = NoPacket

UCInit == ConnWithData /\ BatchIdle /\ RestIdle

PacketNumsUsed ==
  nextPacketNum["Initial"] + nextPacketNum["Handshake"] + nextPacketNum["AppData"]

\* A packet is built with the next packet number of its space and folded
\* into the connection state.
PacketSent ==
  /\ checkFailed = None
  /\ PacketNumsUsed < MaxPackets
  /\ \E space \in PacketNumberSpaces, isClone \in BOOLEAN :
       /\ isClone => \E i \in 1..Len(outstandings) : outstandings[i].space = space
       /\ \E frames \in PacketsFor(space, isClone), d6d \in BOOLEAN :
            /\ isClone => HasAckElicitingFrame(frames)
            /\ d6d => (space = "AppData" /\ ~isClone
                       /\ \A i \in 1..Len(frames) :
                            frames[i].type \in {"PingFrame", "PaddingFrame"})
            /\ UpdateConnection(
                 [space |-> space, packetNum |-> nextPacketNum[space],
                  frames |-> frames, isClone |-> isClone, isD6DProbe |-> d6d],
                 TRUE, TRUE)
  /\ UNCHANGED <<restVars, wrVars, written, streamLog, batchVars, loop>>

\* writeProbingDataToSocket skips a packet number before it writes probes.
SkipPacketNum ==
  /\ checkFailed = None
  /\ PacketNumsUsed < MaxPackets
  /\ \E space \in PacketNumberSpaces :
       /\ nextPacketNum' = [nextPacketNum EXCEPT ![space] = @ + 1]
  /\ UNCHANGED <<restVars, wrVars, streamVars, checkFailed, outstandings, pendingEvents,
                 lossState, notified, lastPacket, batchVars, loop>>

\* An outstanding packet is acknowledged or declared lost: its record goes.
OutstandingRemoved ==
  /\ checkFailed = None
  /\ \E i \in 1..Len(outstandings) : outstandings' = RemoveAt(outstandings, i)
  /\ UNCHANGED <<restVars, wrVars, streamVars, checkFailed, nextPacketNum, pendingEvents,
                 lossState, notified, lastPacket, batchVars, loop>>

UCNext == PacketSent \/ SkipPacketNum \/ OutstandingRemoved

SpecUC == UCInit /\ [][UCNext]_vars

\* ---- the specification of the ack frames of a packet ----

\* The ack frames a packet is passed to updateConnection with: one, or two
\* (which no scheduler writes); each acknowledges up to some packet number.
AckFrameLists ==
  { <<Frame("WriteAckFrame", "stream0", 0, 0, FALSE, a)>> : a \in 0..MaxPackets }
    \cup { <<Frame("WriteAckFrame", "stream0", 0, 0, FALSE, a),
             Frame("WriteAckFrame", "stream0", 0, 0, FALSE, b)>> :
             a \in 0..MaxPackets, b \in 0..MaxPackets }

\* updateConnection is called with a packet of ack frames and, or not, a ping.
AckPacketSent ==
  /\ checkFailed = None
  /\ PacketNumsUsed < MaxPackets
  /\ \E space \in PacketNumberSpaces, acks \in AckFrameLists,
        c \in {<<>>, <<ControlFrame("PingFrame")>>} :
       UpdateConnection(
         [space |-> space, packetNum |-> nextPacketNum[space],
          frames |-> acks \o c, isClone |-> FALSE, isD6DProbe |-> FALSE],
         TRUE, TRUE)
  /\ UNCHANGED <<restVars, wrVars, written, streamLog, batchVars, loop>>

AckFrameNext == AckPacketSent \/ OutstandingRemoved

SpecAckFrame == UCInit /\ [][AckFrameNext]_vars

(***************************************************************************)
(* IOBufQuicBatch.                                                         *)
(***************************************************************************)

\* The error codes a socket write fails with here.
Errors == {"EAGAIN", "ENOBUFS", "EMSGSIZE", "ENETUNREACH", "ECONNREFUSED"}

\* What batchWriter_->write does on a socket: the batch is consumed, or the
\* write returns a negative value and sets errno.
WriteOutcomes == {"ok"} \cup Errors

\* A slip: only an operation that would block is taken for retriable.
isRetriableError_onlyAgain(err) == err \in {"EAGAIN", "EWOULDBLOCK"}

\* A slip: a message too large for the socket is taken for a fatal error.
isRetriableError_noMsgSize(err) == err \in {"EAGAIN", "EWOULDBLOCK", "ENOBUFS"}

isRetriableError(err) == err \in {"EAGAIN", "EWOULDBLOCK", "ENOBUFS", "EMSGSIZE"}

isNetworkUnreachable(err) == err \in {"ENETUNREACH", "EHOSTUNREACH"}

\* A slip: the two exceptions are exchanged.
FatalSignal_exchanged(err) ==
  IF isNetworkUnreachable(err)
    THEN [type |-> "QuicTransportException", code |-> "INTERNAL_ERROR"]
    ELSE [type |-> "QuicInternalException", code |-> "CONNECTION_ABANDONED"]

\* The exception flushInternal throws when no socket is left to write to.
FatalSignal(err) ==
  IF isNetworkUnreachable(err)
    THEN [type |-> "QuicInternalException", code |-> "CONNECTION_ABANDONED"]
    ELSE [type |-> "QuicTransportException", code |-> "INTERNAL_ERROR"]

\* happyEyeballsStartSecondSocket: the second socket is written to from now on.
happyEyeballsStartSecondSocket(hes) ==
  [hes EXCEPT !.shouldWriteToSecondSocket = TRUE]

\* A slip: the second socket is started when the first one took the batch.
StartsSecondSocket_onSuccess(batchWritten, connAttemptDelayTimeout) ==
  batchWritten /\ connAttemptDelayTimeout = "scheduled"

\* if (!written && connAttemptDelayTimeout && connAttemptDelayTimeout->
\* isScheduled()), between the write to the first socket and the test of
\* shouldWriteToSecondSocket.
StartsSecondSocket(batchWritten, connAttemptDelayTimeout) ==
  ~batchWritten /\ connAttemptDelayTimeout = "scheduled"

\* The state a flush works on.
IoState ==
  [hes |-> happyEyeballsState, size |-> ioBufBatch.size, errno |-> errno,
   readPaused |-> readPaused]

\* A slip: the answer of the second socket replaces that of the first.
Written_secondOnly(written1, second, written2) ==
  IF second THEN written2 ELSE written1

\* written |= (consumed >= 0), after the write to each socket.
Written(written1, second, written2) == written1 \/ written2

\* A slip: a socket that has not taken the batch is written to no more,
\* whatever the error.
StaysEligible_onlyWhenTaken(consumed, err) == consumed

\* shouldWriteTo...Socket = (consumed >= 0 || isRetriableError(errno))
StaysEligible(consumed, err) == consumed \/ isRetriableError(err)

\* flushInternal, with the outcomes o1 and o2 the writes to the first and to
\* the second socket have when they are made.  The result holds the state
\* after it, the value returned, the exception thrown and the writes made.
flushInternal(io, o1, o2) ==
  IF io.size = 0
    THEN [io |-> io, attempted |-> TRUE, flushed |-> FALSE, writes |-> <<>>,
          ret |-> TRUE, thrown |-> NoException, left |-> 0]
    ELSE
      LET first == io.hes.shouldWriteToFirstSocket
          written1 == first /\ o1 = "ok"
          errno1 == IF first /\ o1 # "ok" THEN o1 ELSE io.errno
          should1 == first /\ StaysEligible(o1 = "ok", errno1)
          kick == StartsSecondSocket(written1, io.hes.connAttemptDelayTimeout)
          hes1 == [io.hes EXCEPT
                     !.shouldWriteToFirstSocket = should1,
                     !.connAttemptDelayTimeout = IF kick THEN "cancelled" ELSE @]
          hes2 == IF kick THEN happyEyeballsStartSecondSocket(hes1) ELSE hes1
          second == hes2.shouldWriteToSecondSocket
          written2 == second /\ o2 = "ok"
          errno2 == IF second /\ o2 # "ok" THEN o2 ELSE errno1
          should2 == second /\ StaysEligible(o2 = "ok", errno2)
          batchWritten == Written(written1, second, written2)
          fatal == ~should1 /\ ~should2
      IN  [io |-> [hes |-> [hes2 EXCEPT !.shouldWriteToSecondSocket = should2],
                   size |-> io.size,
                   errno |-> errno2,
                   readPaused |->
                     [first |-> io.readPaused.first \/ (first /\ ~should1),
                      second |-> io.readPaused.second \/ (second /\ ~should2)]],
           attempted |-> TRUE,
           flushed |-> TRUE,
           writes |-> (IF first THEN <<[socket |-> "first", outcome |-> o1]>> ELSE <<>>)
                        \o (IF second THEN <<[socket |-> "second", outcome |-> o2]>>
                            ELSE <<>>),
           ret |-> batchWritten,
           thrown |-> IF fatal THEN FatalSignal(errno2) ELSE NoException,
           left |-> io.size]

\* A slip: the batch writer keeps its packets over a reset.
reset_keeps(io) == io

\* IOBufQuicBatch::reset: the batch writer is emptied.
reset(io) == [io EXCEPT !.size = 0]

\* IOBufQuicBatch::flush: flushInternal and then reset, which an exception
\* thrown by flushInternal passes over.  The result records in left the
\* packets the batch writer holds when the call is left.
flush(io, threadLocal, flushType, o1, o2) ==
  IF threadLocal /\ flushType = "FLUSH_TYPE_ALLOW_THREAD_LOCAL_DELAY"
    THEN [io |-> io, attempted |-> FALSE, flushed |-> FALSE, writes |-> <<>>,
          ret |-> TRUE, thrown |-> NoException, left |-> io.size]
    ELSE LET r == flushInternal(io, o1, o2)
         IN  IF r.thrown # NoException THEN r
             ELSE [r EXCEPT !.io = reset(r.io), !.left = reset(r.io).size]

\* batchWriter_->append: the packet is buffered; a flush is asked for when
\* the batch has reached its size.
AppendAsksFlush(size) == size >= MaxBatchSize

\* IOBufQuicBatch::write, with needsFlush the answer of batchWriter_->needsFlush.
\* A batch of two packets or more is flushed at most once in a write: the
\* flush before the append leaves one packet in the batch.  The result holds
\* the last flush made and, as value, what write returns.
write(io, threadLocal, needsFlush, o1, o2) ==
  LET before == IF needsFlush
                  THEN flush(io, threadLocal, "FLUSH_TYPE_ALWAYS", o1, o2)
                  ELSE [io |-> io, attempted |-> FALSE, flushed |-> FALSE,
                        writes |-> <<>>, ret |-> TRUE, thrown |-> NoException,
                        left |-> io.size]
      appended == [before.io EXCEPT !.size = @ + 1]
      after == flush(appended, threadLocal, "FLUSH_TYPE_ALWAYS", o1, o2)
  IN  IF before.thrown # NoException THEN [last |-> before, value |-> FALSE]
      ELSE IF AppendAsksFlush(appended.size)
        THEN [last |-> after, value |-> after.ret]
        ELSE [last |-> [before EXCEPT !.io = appended], value |-> TRUE]

\* The state after a flush or a write with result r.
BatchBecomes(r, sent) ==
  /\ ioBufBatch' = [ioBufBatch EXCEPT !.size = r.io.size, !.pktSent = @ + sent]
  /\ happyEyeballsState' = r.io.hes
  /\ errno' = r.io.errno
  /\ readPaused' = r.io.readPaused
  /\ flushLog' = [attempted |-> r.attempted, flushed |-> r.flushed,
                  writes |-> r.writes, ret |-> r.ret, thrown |-> r.thrown,
                  left |-> r.left]

\* ---- the specification of the batch ----

\* The connection races two sockets or not; the second socket is started,
\* or the delay before its start is running, or there is none.
BatchInit ==
  /\ \E threadLocal \in BOOLEAN :
       ioBufBatch = [threadLocal |-> threadLocal, pktSent |-> 0, size |-> 0]
  /\ \E second \in BOOLEAN, timeout \in {"none", "scheduled"} :
       /\ timeout = "scheduled" => ~second
       /\ happyEyeballsState =
            [shouldWriteToFirstSocket |-> TRUE,
             shouldWriteToSecondSocket |-> second,
             connAttemptDelayTimeout |-> timeout]
  /\ errno = "0"
  /\ readPaused = [first |-> FALSE, second |-> FALSE]
  /\ flushLog = NoFlushLog

FlushInit ==
  /\ ClassifierIdle
  /\ StreamsIdle
  /\ outstandings = <<>>
  /\ nextPacketNum = [s \in PacketNumberSpaces |-> 0]
  /\ pendingEvents = NoPendingEvents
  /\ lossState = [largestSent |-> Absent, totalPacketsSent |-> 0,
                  totalAckElicitingPacketsSent |-> 0,
                  totalBytesRetransmitted |-> 0,
                  totalStreamBytesCloned |-> 0]
  /\ notified = [congestionController |-> 0, pacer |-> 0]
  /\ lastPacket = NoPacket
  /\ BatchInit
  /\ loop = [pc |-> "idle", pnSpace |-> "AppData", builds |-> 0,
             writeSuccess |-> TRUE]
  /\ RestIdle

\* ioBufBatch.write(buf, encodedSize).
BatchWrite ==
  /\ flushLog.thrown = NoException
  /\ ioBufBatch.pktSent < MaxPackets
  /\ \E needsFlush \in BOOLEAN, o1 \in WriteOutcomes, o2 \in WriteOutcomes :
       /\ needsFlush => ioBufBatch.size > 0
       /\ BatchBecomes(
            write(IoState, ioBufBatch.threadLocal, needsFlush, o1, o2).last, 1)
  /\ UNCHANGED <<restVars, wrVars, streamVars, checkFailed, connVars, loop>>

\* ioBufBatch.flush(flushType).
BatchFlush ==
  /\ flushLog.thrown = NoException
  /\ \E flushType \in {"FLUSH_TYPE_ALWAYS", "FLUSH_TYPE_ALLOW_THREAD_LOCAL_DELAY"},
        o1 \in WriteOutcomes, o2 \in WriteOutcomes :
       BatchBecomes(flush(IoState, ioBufBatch.threadLocal, flushType, o1, o2), 0)
  /\ UNCHANGED <<restVars, wrVars, streamVars, checkFailed, connVars, loop>>

FlushNext == BatchWrite \/ BatchFlush

SpecFlush == FlushInit /\ [][FlushNext]_vars

(***************************************************************************)
(* writeConnectionDataToSocket.                                            *)
(***************************************************************************)

\* A slip: a packet the batch did not take is not folded into the state.
PacketIsFolded_onlyWritten(ret) == ret.buildSuccess /\ ret.writeSuccess

\* The loop returns on a build failure and calls updateConnection otherwise.
PacketIsFolded(ret) == ret.buildSuccess

\* The outcomes of a socket write the loop is run with: the batch is taken,
\* a retriable error, an error that is not retriable.
LoopOutcomes == {"ok", "EAGAIN", "ENETUNREACH"}

\* The packets the loop is run with: an ack frame or none, and a ping, a
\* stream reset, padding or none.
LoopPackets ==
  { a \o c :
      a \in AckFramesFor(FALSE),
      c \in {<<>>} \cup { <<ControlFrame(t)>> :
                            t \in {"PingFrame", "RstStreamFrame", "PaddingFrame"} } }
    \ {<<>>}

LoopInit ==
  /\ ConnWithData
  /\ BatchInit
  /\ RestIdle
  /\ \E pnSpace \in {"Initial", "AppData"} :
       loop = [pc |-> "idle", pnSpace |-> pnSpace, builds |-> 0,
               writeSuccess |-> TRUE]

\* The call begins: the batch is made, the loop is entered.
LoopBegin ==
  /\ loop.pc = "idle"
  /\ loop' = [loop EXCEPT !.pc = "running"]
  /\ UNCHANGED <<restVars, wrVars, streamVars, checkFailed, connVars, batchVars>>

\* The answers of scheduler.scheduleFramesForPacket: no packet, a packet
\* without frames, a packet without a body, a packet.
SchedulingFailures == {"NoPacket", "NoFrames", "NoBody"}

\* The flush type of a flush() call without an argument: the default of the
\* declaration of IOBufQuicBatch::flush, which lets a thread-local batch
\* defer the flush.
DefaultFlushType == "FLUSH_TYPE_ALLOW_THREAD_LOCAL_DELAY"

\* A slip: the pipeline leaves the batch alone when no packet is built.
FlushOnBuildFailure_none(io, threadLocal, o1, o2) ==
  [io |-> io, attempted |-> FALSE, flushed |-> FALSE, writes |-> <<>>,
   ret |-> TRUE, thrown |-> NoException, left |-> io.size]

\* ioBufBatch.flush() of the pipeline when no packet is built: the flush
\* type is the default one of flush.
FlushOnBuildFailure(io, threadLocal, o1, o2) ==
  flush(io, threadLocal, DefaultFlushType, o1, o2)

\* The test before the error log of an encoded packet: the continuous
\* memory data path lets the D6D probe pass, the chained one no packet.
OversizeIsLogged(dataPathType, isD6DProbe, encodedSize, udpSendPacketLen) ==
  IF dataPathType = "ContinuousMemory"
    THEN ~isD6DProbe /\ encodedSize > udpSendPacketLen
    ELSE encodedSize > udpSendPacketLen

\* The size of the encoded packet.  The chained data path allocates header,
\* body and cipher overhead and encrypts into it.  The continuous memory one
\* encrypts the body in place when the aead has hash index 0, which adds the
\* cipher overhead to it, and leaves the body as it is otherwise (the
\* CipherMeta handed to the batch stands for the encryption); the header is
\* put back in front.
EncodedSize(dataPathType, headerLen, bodyLen, cipherOverhead, hashIndex) ==
  IF dataPathType = "ChainedMemory"
    THEN headerLen + bodyLen + cipherOverhead
    ELSE IF hashIndex = 0
      THEN headerLen + (bodyLen + cipherOverhead)
      ELSE headerLen + bodyLen

\* A slip: the bytes of the attempt stay at the tail of the buffer.
rollbackBuf_keepsTail(buf, prevSize) == [length |-> buf.length, owned |-> TRUE]

\* rollbackBuf of the continuous memory data path: the buffer is obtained
\* from the accessor, trimmed at its end by what exceeds prevSize, and
\* released.
rollbackBuf(buf, prevSize) ==
  [length |-> buf.length - (buf.length - prevSize), owned |-> TRUE]

\* The connection's buffer after a flush of the batch: the batch writer of
\* the continuous memory data path sends the packets from the buffer and
\* leaves it empty.
BufferAfterFlush(r, length) == IF r.flushed THEN 0 ELSE length

\* The connection's buffer after ioBufBatch.write with result w: the packets
\* that are still in the batch.
BufferAfterWrite(w, needsFlush, prevSize, encodedSize) ==
  IF w.last.thrown # NoException THEN prevSize + encodedSize
  ELSE IF w.last.io.size = 0 THEN 0
  ELSE IF needsFlush THEN encodedSize
  ELSE prevSize + encodedSize

\* continuousMemoryBuildScheduleEncrypt and iobufChainBasedBuildScheduleEncrypt:
\* scheduled is the answer of the scheduler, encodedSize the size of the
\* encrypted packet, prevSize the length of the connection's buffer before
\* the run and appended the bytes the builder has put behind it when the
\* scheduler gives up.  Without a packet the continuous memory data path
\* rolls the buffer back, the batch is flushed and a build failure
\* returned; a packet is handed to ioBufBatch.write whatever its size, which
\* is only logged.  The result holds the DataPathResult, the last flush of
\* the batch and the log of the run.
BuildScheduleEncrypt(dataPathType, scheduled, encodedSize, isD6DProbe, prevSize, appended, io, threadLocal, needsFlush, o1, o2) ==
  IF scheduled \in SchedulingFailures
    THEN LET f == FlushOnBuildFailure(io, threadLocal, o1, o2)
             rolled == IF dataPathType = "ContinuousMemory"
                         THEN rollbackBuf([length |-> prevSize + appended,
                                           owned |-> TRUE], prevSize)
                         ELSE [length |-> prevSize, owned |-> TRUE]
         IN  [buildSuccess |-> FALSE, writeSuccess |-> FALSE,
              batch |-> f,
              log |-> [dataPathType |-> dataPathType, scheduled |-> scheduled,
                       buildSuccess |-> FALSE, encodedSize |-> 0,
                       isD6DProbe |-> isD6DProbe, handed |-> FALSE,
                       logged |-> FALSE, prevSize |-> prevSize,
                       appended |-> appended,
                       bufAtFlush |-> rolled.length,
                       bufLen |-> BufferAfterFlush(f, rolled.length),
                       ownsBuffer |-> rolled.owned]]
    ELSE LET w == write(io, threadLocal, needsFlush, o1, o2)
         IN  [buildSuccess |-> TRUE, writeSuccess |-> w.value,
              batch |-> w.last,
              log |-> [dataPathType |-> dataPathType, scheduled |-> scheduled,
                       buildSuccess |-> TRUE, encodedSize |-> encodedSize,
                       isD6DProbe |-> isD6DProbe, handed |-> TRUE,
                       logged |-> OversizeIsLogged(dataPathType, isD6DProbe,
                                                   encodedSize,
                                                   conn.udpSendPacketLen),
                       prevSize |-> prevSize, appended |-> appended,
                       bufAtFlush |-> Absent,
                       bufLen |-> IF dataPathType = "ContinuousMemory"
                                    THEN BufferAfterWrite(w, needsFlush,
                                                          prevSize, encodedSize)
                                    ELSE prevSize,
                       ownsBuffer |-> TRUE]]

\* One pass of the loop with a scheduler that answers with one of the
\* packets or with one of the failures, and with encoded packets of one of
\* the sizes: the data path builds no packet, and the call returns; or it
\* builds one and hands it to the batch, the packet is folded into the
\* connection state, and the call returns when the batch write failed.  An
\* exception of the batch leaves the call from inside the data path.  The
\* packets are clones of outstanding packets when the scheduler is the
\* cloning scheduler.
Iteration(packets, failures, sizes, probes, isClone) ==
  /\ loop.pc = "running"
  /\ checkFailed = None
  /\ ioBufBatch.pktSent < MaxPackets
  /\ \E scheduled \in failures \cup {"Packet"}, frames \in packets,
        encodedSize \in sizes, isD6DProbe \in probes, needsFlush \in BOOLEAN,
        appended \in 0..MaxAppended, o1 \in LoopOutcomes, o2 \in LoopOutcomes :
       \E ret \in {BuildScheduleEncrypt(
                      build.dataPathType, scheduled, encodedSize, isD6DProbe,
                      build.bufLen, appended, IoState, ioBufBatch.threadLocal,
                      needsFlush, o1, o2)} :
           /\ needsFlush => (scheduled = "Packet" /\ ioBufBatch.size > 0)
           /\ isD6DProbe =>
                /\ loop.pnSpace = "AppData"
                /\ \A i \in 1..Len(frames) :
                     frames[i].type \in {"PingFrame", "PaddingFrame"}
           /\ scheduled \in failures =>
                /\ frames = CHOOSE f \in packets : TRUE
                /\ encodedSize = CHOOSE n \in sizes : TRUE
                /\ ~isD6DProbe
           /\ scheduled = "Packet" => appended = 0
           /\ build' = ret.log
           /\ BatchBecomes(ret.batch, IF ret.buildSuccess THEN 1 ELSE 0)
           /\ IF ret.batch.thrown # NoException
                THEN /\ loop' = [loop EXCEPT !.pc = "thrown"]
                     /\ UNCHANGED <<streams, checkFailed, connVars>>
                ELSE IF ~ret.buildSuccess
                THEN /\ loop' = [loop EXCEPT !.pc = "returned"]
                     /\ UNCHANGED <<streams, checkFailed, connVars>>
                ELSE /\ loop' = [loop EXCEPT
                                   !.pc = IF ret.writeSuccess THEN "running"
                                          ELSE "returned",
                                   !.builds = @ + 1,
                                   !.writeSuccess = ret.writeSuccess]
                     /\ IF PacketIsFolded(ret)
                          THEN UpdateConnection(
                                 [space |-> loop.pnSpace,
                                  packetNum |-> nextPacketNum[loop.pnSpace],
                                  frames |-> frames, isClone |-> isClone,
                                  isD6DProbe |-> isD6DProbe],
                                 TRUE, TRUE)
                          ELSE UNCHANGED <<streams, checkFailed, connVars>>
  /\ UNCHANGED <<implicitAck, looper, wrVars, written, streamLog>>

\* One pass of the loop, with packets of any frames that fit the path.
LoopIteration ==
  Iteration(LoopPackets, {"NoFrames"}, {conn.udpSendPacketLen}, {FALSE}, FALSE)

\* The loop condition is false: the batch is flushed, the call returns.
LoopEnd ==
  /\ loop.pc = "running"
  /\ \E o1 \in LoopOutcomes, o2 \in LoopOutcomes :
       LET r == flush(IoState, ioBufBatch.threadLocal, DefaultFlushType,
                      o1, o2)
       IN  /\ BatchBecomes(r, 0)
           /\ build' = [build EXCEPT !.bufLen = BufferAfterFlush(r, @)]
           /\ loop' = [loop EXCEPT
                         !.pc = IF r.thrown # NoException THEN "thrown"
                                ELSE "returned"]
  /\ UNCHANGED <<implicitAck, looper, wrVars, streamVars, checkFailed, connVars>>

LoopNext == LoopBegin \/ LoopIteration \/ LoopEnd

SpecLoop == LoopInit /\ [][LoopNext]_vars

\* ---- the specification of the data path ----

\* The packets the data path is run with: an ack frame, a ping.
BuildPackets == {<<Frame("WriteAckFrame", "stream0", 0, 0, FALSE, 0)>>,
                 <<ControlFrame("PingFrame")>>}

\* The sizes of the encoded packets: within the limit of the path, above it.
EncodedSizes == {conn.udpSendPacketLen, conn.udpSendPacketLen + 1}

BuildInit ==
  /\ ConnWithData
  /\ BatchInit
  /\ \E pnSpace \in {"Initial", "AppData"} :
       loop = [pc |-> "idle", pnSpace |-> pnSpace, builds |-> 0,
               writeSuccess |-> TRUE]
  /\ implicitAck = [l \in {"Initial", "Handshake"} |-> NoImplicitAck]
  /\ looper = NewLooper
  /\ \E dataPathType \in {"ChainedMemory", "ContinuousMemory"} :
       build = NoBuild(dataPathType)

\* One pass of the loop, with every answer of the scheduler and with
\* encoded packets on both sides of the limit.
BuildIteration ==
  Iteration(BuildPackets, SchedulingFailures, EncodedSizes, BOOLEAN, FALSE)

BuildNext == LoopBegin \/ BuildIteration \/ LoopEnd

SpecBuild == BuildInit /\ [][BuildNext]_vars

\* A slip: the loop goes on while the packets sent are at the limit.
WithinPacketLimit_inclusive(pktSent, packetLimit) == pktSent <= packetLimit

\* ioBufBatch.getPktSent() < packetLimit, of the loop condition.
WithinPacketLimit(pktSent, packetLimit) == pktSent < packetLimit

\* ---- the specification of the calls that drain a stream ----

\* A stream with data enqueued, written before from offset 0 or 1 on;
\* nothing is outstanding.  Each call may send one packet.
DrainInit ==
  /\ ClassifierIdle
  /\ \E L \in 1..MaxStreamBytes, start \in {0, 1} :
       /\ streams =
            [s \in StreamLikes |->
               IF s = "stream0"
                 THEN writeDataToQuicStream(
                        [EmptyStream EXCEPT !.currentWriteOffset = start],
                        [i \in 1..L |-> i - 1], FALSE)
                 ELSE EmptyStream]
       /\ written = [s \in StreamLikes |->
                       IF s = "stream0" THEN [i \in 1..L |-> i - 1] ELSE <<>>]
       /\ loop = [pc |-> "idle", pnSpace |-> "AppData", builds |-> 0,
                  writeSuccess |-> TRUE, packetLimit |-> 1, calls |-> 0,
                  startOffset |-> start]
  /\ streamLog = NoStreamLog
  /\ checkFailed = None
  /\ outstandings = <<>>
  /\ nextPacketNum = [s \in PacketNumberSpaces |-> 0]
  /\ pendingEvents = NoPendingEvents
  /\ lossState = [largestSent |-> Absent, totalPacketsSent |-> 0,
                  totalAckElicitingPacketsSent |-> 0,
                  totalBytesRetransmitted |-> 0,
                  totalStreamBytesCloned |-> 0]
  /\ notified = [congestionController |-> 0, pacer |-> 0]
  /\ lastPacket = NoPacket
  /\ BatchInit
  /\ RestIdle

\* The packets of the stream scheduler: one frame of new data of the stream,
\* of any length the budget of the packet allows.
DrainPackets ==
  { <<Frame("WriteStreamFrame", "stream0", f.offset, f.len, f.fin, 0)>> :
      f \in NewDataFrames(streams["stream0"]) }

\* One pass of the loop while the packet limit of the call is not reached.
DrainIteration ==
  /\ WithinPacketLimit(ioBufBatch.pktSent, loop.packetLimit)
  /\ Iteration(DrainPackets, {}, {conn.udpSendPacketLen}, {FALSE}, FALSE)

\* The next call of writeConnectionDataToSocket, with a batch of its own; a
\* thread-local batch writer keeps what it holds.
NextCall ==
  /\ loop.pc = "returned"
  /\ checkFailed = None
  /\ loop.calls + 1 < MaxCalls
  /\ loop' = [loop EXCEPT !.pc = "idle", !.calls = @ + 1]
  /\ ioBufBatch' = [ioBufBatch EXCEPT !.pktSent = 0]
  /\ UNCHANGED <<restVars, wrVars, streamVars, checkFailed, connVars,
                 happyEyeballsState, errno, readPaused, flushLog>>

DrainNext == LoopBegin \/ DrainIteration \/ LoopEnd \/ NextCall

SpecDrain == DrainInit /\ [][DrainNext]_vars

\* ---- the specification of the probes ----

\* The probes asked for in a call of writeProbingDataToSocket.
MaxProbes == 2

\* A slip: no ping is fallen back on.
NeedsPingFallback_never(probesToSend, probesWritten) == FALSE

\* A slip: the ping is fallen back on whatever the clones have written.
NeedsPingFallback_always(probesToSend, probesWritten) == probesToSend > 0

\* if (probesToSend && !written)
NeedsPingFallback(probesToSend, probesWritten) ==
  probesToSend > 0 /\ probesWritten = 0

\* A connection before a call of writeProbingDataToSocket: a packet with
\* the first byte of the stream is outstanding or none is, a ping is
\* pending or not.
ProbeInit ==
  /\ ClassifierIdle
  /\ \E hasOutstanding \in BOOLEAN, sendPing \in BOOLEAN, probesToSend \in 0..MaxProbes :
       /\ streams =
            [s \in StreamLikes |->
               IF s = "stream0" /\ hasOutstanding
                 THEN handleNewStreamDataWritten(
                        writeDataToQuicStream(EmptyStream, <<0>>, FALSE), 1,
                        FALSE).value
                 ELSE EmptyStream]
       /\ written = [s \in StreamLikes |->
                       IF s = "stream0" /\ hasOutstanding THEN <<0>> ELSE <<>>]
       /\ outstandings =
            IF hasOutstanding
              THEN <<[packetNum |-> 0, space |-> "AppData", isHandshake |-> FALSE,
                      associatedEvent |-> FALSE, cryptoOffset |-> Absent]>>
              ELSE <<>>
       /\ nextPacketNum = [s \in PacketNumberSpaces |->
                             IF s = "AppData" /\ hasOutstanding THEN 1 ELSE 0]
       /\ pendingEvents = [NoPendingEvents EXCEPT
                             !.sendPing = sendPing,
                             !.setLossDetectionAlarm = hasOutstanding]
       /\ lossState =
            IF hasOutstanding
              THEN [largestSent |-> 0, totalPacketsSent |-> 1,
                    totalAckElicitingPacketsSent |-> 1,
                    totalBytesRetransmitted |-> 0,
                    totalStreamBytesCloned |-> 0]
              ELSE [largestSent |-> Absent, totalPacketsSent |-> 0,
                    totalAckElicitingPacketsSent |-> 0,
                    totalBytesRetransmitted |-> 0,
                    totalStreamBytesCloned |-> 0]
       /\ notified = [congestionController |-> IF hasOutstanding THEN 1 ELSE 0,
                      pacer |-> IF hasOutstanding THEN 1 ELSE 0]
       /\ loop = [pc |-> "notCalled", pnSpace |-> "AppData", builds |-> 0,
                  writeSuccess |-> TRUE, packetLimit |-> 0,
                  probesToSend |-> probesToSend, passes |-> <<>>,
                  cloned |-> 0, probesWritten |-> 0, sendPingSet |-> FALSE]
  /\ streamLog = NoStreamLog
  /\ checkFailed = None
  /\ lastPacket = NoPacket
  /\ BatchInit
  /\ RestIdle

\* writeProbingDataToSocket begins: a packet number is skipped and
\* writeConnectionDataToSocket is called with the cloning scheduler and
\* probesToSend as its packet limit.
ProbeBegin ==
  /\ loop.pc = "notCalled"
  /\ nextPacketNum' = [nextPacketNum EXCEPT ![loop.pnSpace] = @ + 1]
  /\ loop' = [loop EXCEPT !.pc = "idle", !.passes = <<"cloning">>,
                          !.packetLimit = loop.probesToSend]
  /\ UNCHANGED <<restVars, wrVars, streamVars, checkFailed, outstandings,
                 pendingEvents, lossState, notified, lastPacket, batchVars>>

\* The packets of the cloning scheduler: the frames of an outstanding
\* packet of the space again.
ClonePackets ==
  IF \E i \in 1..Len(outstandings) : outstandings[i].space = loop.pnSpace
    THEN { <<Frame("WriteStreamFrame", "stream0", f.offset, f.len, f.fin, 0)>> :
             f \in CloneFrames(streams["stream0"]) }
    ELSE {}

\* The packets of the ping scheduler: a ping while one is pending.
PingPackets ==
  IF pendingEvents.sendPing THEN {<<ControlFrame("PingFrame")>>} ELSE {}

\* One pass of the loop of the call under way, with the cloning scheduler
\* or with the ping scheduler.
ProbeIteration ==
  /\ loop.pc = "running"
  /\ loop.passes \in {<<"cloning">>, <<"cloning", "ping">>}
  /\ WithinPacketLimit(ioBufBatch.pktSent, loop.packetLimit)
  /\ Iteration(IF loop.passes = <<"cloning">> THEN ClonePackets ELSE PingPackets,
               {"NoFrames"}, {conn.udpSendPacketLen}, {FALSE},
               loop.passes = <<"cloning">>)

\* The cloning pass has returned without a probe written: sendPing is set
\* and writeConnectionDataToSocket is called with the ping scheduler and
\* what is left of probesToSend as its packet limit.
PingFallback ==
  /\ loop.pc = "returned"
  /\ loop.passes = <<"cloning">>
  /\ NeedsPingFallback(loop.probesToSend, ioBufBatch.pktSent)
  /\ pendingEvents' = [pendingEvents EXCEPT !.sendPing = TRUE]
  /\ loop' = [loop EXCEPT !.pc = "idle", !.passes = <<"cloning", "ping">>,
                          !.cloned = ioBufBatch.pktSent,
                          !.probesWritten = ioBufBatch.pktSent,
                          !.packetLimit = loop.probesToSend - ioBufBatch.pktSent,
                          !.sendPingSet = TRUE]
  /\ ioBufBatch' = [ioBufBatch EXCEPT !.pktSent = 0]
  /\ UNCHANGED <<restVars, wrVars, streamVars, checkFailed, outstandings,
                 nextPacketNum, lossState, notified, lastPacket,
                 happyEyeballsState, errno, readPaused, flushLog>>

\* writeProbingDataToSocket returns the probes written: after the cloning
\* pass when no ping is fallen back on, after the ping pass otherwise.
ProbeReturn ==
  /\ loop.pc = "returned"
  /\ loop.passes \in {<<"cloning">>, <<"cloning", "ping">>}
  /\ loop.passes = <<"cloning">> =>
       ~NeedsPingFallback(loop.probesToSend, ioBufBatch.pktSent)
  /\ loop' = [loop EXCEPT
                !.pc = "done",
                !.cloned = IF loop.passes = <<"cloning">>
                             THEN ioBufBatch.pktSent ELSE @,
                !.probesWritten = @ + ioBufBatch.pktSent]
  /\ UNCHANGED <<restVars, wrVars, streamVars, checkFailed, connVars, batchVars>>

ProbeNext ==
  ProbeBegin \/ LoopBegin \/ ProbeIteration \/ LoopEnd \/ PingFallback
    \/ ProbeReturn

SpecProbe == ProbeInit /\ [][ProbeNext]_vars

\* ---- the specification of the calls that write probes and data ----

\* The functions that write probes and then data under one packet limit.
WriteEntries == {"writeQuicDataToSocketImpl", "writeCryptoAndAckDataToSocket"}

\* The packet number space an entry writes in.
EntrySpace(entry) ==
  IF entry = "writeQuicDataToSocketImpl" THEN "AppData" ELSE "Initial"

\* A connection before a call of one of the entries with a packet limit:
\* probes are pending or not, a packet with the first byte of the stream
\* is outstanding in the space of the application data or none is.
WriteInit ==
  /\ ClassifierIdle
  /\ \E hasOutstanding \in BOOLEAN, numProbePackets \in 0..MaxProbes,
        packetLimit \in 0..MaxPackets, entry \in WriteEntries :
       /\ hasOutstanding => entry = "writeQuicDataToSocketImpl"
       /\ streams =
            [s \in StreamLikes |->
               IF s = "stream0" /\ hasOutstanding
                 THEN handleNewStreamDataWritten(
                        writeDataToQuicStream(EmptyStream, <<0>>, FALSE), 1,
                        FALSE).value
                 ELSE EmptyStream]
       /\ written = [s \in StreamLikes |->
                       IF s = "stream0" /\ hasOutstanding THEN <<0>> ELSE <<>>]
       /\ outstandings =
            IF hasOutstanding
              THEN <<[packetNum |-> 0, space |-> "AppData", isHandshake |-> FALSE,
                      associatedEvent |-> FALSE, cryptoOffset |-> Absent]>>
              ELSE <<>>
       /\ nextPacketNum = [s \in PacketNumberSpaces |->
                             IF s = "AppData" /\ hasOutstanding THEN 1 ELSE 0]
       /\ pendingEvents =
            [setLossDetectionAlarm |-> hasOutstanding, sendPing |-> FALSE,
             sendDataBlocked |-> FALSE, resets |-> {},
             numProbePackets |-> numProbePackets]
       /\ lossState =
            [largestSent |-> IF hasOutstanding THEN 0 ELSE Absent,
             totalPacketsSent |-> IF hasOutstanding THEN 1 ELSE 0,
             totalAckElicitingPacketsSent |-> IF hasOutstanding THEN 1 ELSE 0,
             totalBytesRetransmitted |-> 0,
             totalStreamBytesCloned |-> 0]
       /\ notified = [congestionController |-> IF hasOutstanding THEN 1 ELSE 0,
                      pacer |-> IF hasOutstanding THEN 1 ELSE 0]
       /\ loop = [pc |-> "entry", pnSpace |-> EntrySpace(entry), builds |-> 0,
                  writeSuccess |-> TRUE, entry |-> entry,
                  callLimit |-> packetLimit, packetLimit |-> 0,
                  probesToSend |-> 0, passes |-> <<>>, cloned |-> 0,
                  probesWritten |-> 0, sendPingSet |-> FALSE,
                  returned |-> <<>>, written |-> 0]
  /\ streamLog = NoStreamLog
  /\ checkFailed = None
  /\ lastPacket = NoPacket
  /\ BatchInit
  /\ RestIdle

\* The test before the probes: numProbePackets, and for the crypto entry
\* also data in the retransmission buffer of the crypto stream or in the
\* scheduler (hasData, the scheduler's answer).
ProbesWanted(entry, numProbePackets, cryptoStream, hasData) ==
  IF entry = "writeQuicDataToSocketImpl"
    THEN numProbePackets > 0
    ELSE numProbePackets > 0
           /\ (cryptoStream.retransmissionBuffer # {} \/ hasData)

\* The uint8_t parameter probesToSend takes std::min<uint64_t>(packetLimit,
\* numProbePackets).
ProbesToSend(packetLimit, numProbePackets) ==
  Min(packetLimit, numProbePackets) % 256

\* packetLimit - written, in uint64_t.
LimitLeft(packetLimit, probesWritten) ==
  IF packetLimit >= probesWritten THEN packetLimit - probesWritten
  ELSE UInt64Max - (probesWritten - packetLimit) + 1

\* The entry is called: with probes wanted writeProbingDataToSocket is
\* called first, otherwise writeConnectionDataToSocket is called at once
\* with the whole packet limit.
WriteBegin ==
  /\ loop.pc = "entry"
  /\ \E hasData \in BOOLEAN :
       IF ProbesWanted(loop.entry, pendingEvents.numProbePackets,
                       streams[CryptoStreamOf(loop.pnSpace)], hasData)
         THEN loop' = [loop EXCEPT
                         !.pc = "notCalled",
                         !.probesToSend =
                            ProbesToSend(loop.callLimit,
                                         pendingEvents.numProbePackets)]
         ELSE loop' = [loop EXCEPT
                         !.pc = "idle", !.passes = <<"data">>,
                         !.packetLimit = LimitLeft(loop.callLimit, 0)]
  /\ UNCHANGED <<restVars, wrVars, streamVars, checkFailed, connVars, batchVars>>

\* A slip: the probes asked for are taken as written.
ProbesLeft_allWritten(numProbePackets, probesWritten) == 0

\* numProbePackets -= written
ProbesLeft(numProbePackets, probesWritten) == numProbePackets - probesWritten

\* writeProbingDataToSocket has returned: CHECK_GE(numProbePackets,
\* written), numProbePackets -= written, and writeConnectionDataToSocket is
\* called with packetLimit - written.
WriteDataAfterProbes ==
  /\ loop.pc = "done"
  /\ checkFailed = None
  /\ IF pendingEvents.numProbePackets >= loop.probesWritten
       THEN /\ pendingEvents' =
                 [pendingEvents EXCEPT
                    !.numProbePackets = ProbesLeft(@, loop.probesWritten)]
            /\ loop' = [loop EXCEPT
                          !.pc = "idle", !.passes = @ \o <<"data">>,
                          !.packetLimit =
                             LimitLeft(loop.callLimit, loop.probesWritten),
                          !.returned = @ \o <<ioBufBatch.pktSent>>]
            /\ ioBufBatch' = [ioBufBatch EXCEPT !.pktSent = 0]
            /\ UNCHANGED checkFailed
       ELSE /\ checkFailed' = "numProbePackets >= written"
            /\ UNCHANGED <<pendingEvents, loop, ioBufBatch>>
  /\ UNCHANGED <<restVars, wrVars, streamVars, outstandings, nextPacketNum,
                 lossState, notified, lastPacket, happyEyeballsState, errno,
                 readPaused, flushLog>>

\* The packets of the scheduler of the data: an ack for the crypto entry,
\* a ping for the other.
WritePackets ==
  IF loop.entry = "writeCryptoAndAckDataToSocket"
    THEN AckFramesFor(FALSE) \ {<<>>}
    ELSE {<<ControlFrame("PingFrame")>>}

\* One pass of the loop of the call that writes the data.
WriteDataIteration ==
  /\ loop.pc = "running"
  /\ loop.passes # <<>>
  /\ loop.passes[Len(loop.passes)] = "data"
  /\ WithinPacketLimit(ioBufBatch.pktSent, loop.packetLimit)
  /\ Iteration(WritePackets, {"NoFrames"}, {conn.udpSendPacketLen}, {FALSE}, FALSE)

\* written += what writeConnectionDataToSocket returns; CHECK_GE(packetLimit,
\* written) in writeCryptoAndAckDataToSocket, a DCHECK_GE the build leaves
\* out in writeQuicDataToSocketImpl; return written.
WriteReturn ==
  /\ loop.pc = "returned"
  /\ loop.passes # <<>>
  /\ loop.passes[Len(loop.passes)] = "data"
  /\ LET total == loop.probesWritten + ioBufBatch.pktSent
     IN  /\ loop' = [loop EXCEPT !.pc = "finished", !.written = total,
                                 !.returned = @ \o <<ioBufBatch.pktSent>>]
         /\ checkFailed' =
              IF loop.entry = "writeCryptoAndAckDataToSocket"
                   /\ ~(loop.callLimit >= total)
                THEN "packetLimit >= written"
                ELSE checkFailed
  /\ UNCHANGED <<restVars, wrVars, streamVars, connVars, batchVars>>

WriteNext ==
  WriteBegin \/ ProbeBegin \/ LoopBegin \/ ProbeIteration \/ LoopEnd
    \/ PingFallback \/ ProbeReturn \/ WriteDataAfterProbes
    \/ WriteDataIteration \/ WriteReturn

SpecWrite == WriteInit /\ [][WriteNext]_vars

\* The calls run on one thread to their end: a step that can be taken is
\* taken.
SpecWriteFair == SpecWrite /\ WF_vars(WriteNext)

\* ---- the specification of the repeated calls that write the probes ----

\* writeQuicDataToSocket is called with probes to write and a packet limit
\* of 1 or more; the batch writes to one socket.
ProbingInit ==
  /\ WriteInit
  /\ loop.entry = "writeQuicDataToSocketImpl"
  /\ loop.callLimit >= 1
  /\ pendingEvents.numProbePackets > 0
  /\ ~ioBufBatch.threadLocal
  /\ ~happyEyeballsState.shouldWriteToSecondSocket
  /\ happyEyeballsState.connAttemptDelayTimeout = "none"

\* One pass of a loop in which the packets that are scheduled can be built:
\* the cloning scheduler may find nothing to clone, the ping scheduler
\* builds the ping that is pending, the data scheduler builds a ping.
ProbingIteration ==
  /\ loop.pc = "running"
  /\ loop.passes # <<>>
  /\ WithinPacketLimit(ioBufBatch.pktSent, loop.packetLimit)
  /\ Iteration(IF loop.passes = <<"cloning">> THEN ClonePackets
               ELSE IF loop.passes = <<"cloning", "ping">> THEN PingPackets
               ELSE WritePackets,
               IF loop.passes = <<"cloning", "ping">> THEN {} ELSE {"NoFrames"},
               {conn.udpSendPacketLen}, {FALSE}, loop.passes = <<"cloning">>)

\* The loop ends when its condition is false: the ping scheduler has data
\* while the ping is pending, so its loop does not end before the ping is
\* written or the packet limit is reached.
ProbingLoopEnd ==
  /\ ~(/\ loop.passes = <<"cloning", "ping">>
       /\ PingPackets # {}
       /\ WithinPacketLimit(ioBufBatch.pktSent, loop.packetLimit))
  /\ LoopEnd

\* The caller calls writeQuicDataToSocket again, with a packet limit of 1 or
\* more, while shouldWriteData answers PROBES.
ProbingAgain ==
  /\ loop.pc = "finished"
  /\ checkFailed = None
  /\ shouldWriteData([conn EXCEPT
                        !.numProbePackets = pendingEvents.numProbePackets])
       = "PROBES"
  /\ \E packetLimit \in 1..MaxPackets :
       loop' = [loop EXCEPT
                  !.pc = "entry", !.callLimit = packetLimit, !.packetLimit = 0,
                  !.probesToSend = 0, !.passes = <<>>, !.cloned = 0,
                  !.probesWritten = 0, !.sendPingSet = FALSE,
                  !.returned = <<>>, !.written = 0, !.builds = 0,
                  !.writeSuccess = TRUE]
  /\ ioBufBatch' = [ioBufBatch EXCEPT !.pktSent = 0]
  /\ UNCHANGED <<restVars, wrVars, streamVars, checkFailed, connVars,
                 happyEyeballsState, errno, readPaused, flushLog>>

ProbingNext ==
  WriteBegin \/ ProbeBegin \/ LoopBegin \/ ProbingIteration
    \/ ProbingLoopEnd \/ PingFallback \/ ProbeReturn \/ WriteDataAfterProbes
    \/ WriteReturn \/ ProbingAgain

SpecProbing == ProbingInit /\ [][ProbingNext]_vars

\* The calls run on one thread to their end, and the caller goes on calling
\* while there is something to write.
SpecProbingFair == SpecProbing /\ WF_vars(ProbingNext)

\* ---- the specification of the loop condition and of the packet budget ----

\* The smoothed round trip time and the time a call runs, in ticks.
MaxSrtt == 2

MaxElapsed == 2

\* writeLoopTimeLimit, with elapsed for Clock::now() - loopBeginTime.
writeLoopTimeLimit(elapsed, srtt, writeLimitRttFraction) ==
  srtt = 0 \/ elapsed < srtt \div writeLimitRttFraction

\* A slip: the time budget counts below the batch size, not from it on.
LoopCondition_budgetBelowFloor(hasData, pktSent, packetLimit, batchSize, withinTime) ==
  hasData /\ pktSent < packetLimit /\ (pktSent >= batchSize \/ withinTime)

\* The condition of the while loop of writeConnectionDataToSocket.
LoopCondition(hasData, pktSent, packetLimit, batchSize, withinTime) ==
  hasData /\ pktSent < packetLimit /\ (pktSent < batchSize \/ withinTime)

\* unlimitedWritableBytes or congestionControlWritableBytes.
WritableBytesOf(writableBytesFunc, c) ==
  IF writableBytesFunc = "unlimitedWritableBytes" THEN UInt64Max
  ELSE congestionControlWritableBytes(c)

\* A slip: the cipher overhead is taken off whatever the budget is, in
\* unsigned arithmetic.
PacketBudget_unguarded(udpSendPacketLen, writable, cipherOverhead) ==
  LET difference == Min(udpSendPacketLen, writable) - cipherOverhead
  IN  IF difference < 0 THEN UInt64Max + difference + 1 ELSE difference

\* writableBytes of a pass: min(udpSendPacketLen, writableBytesFunc(conn))
\* less the cipher overhead, 0 when the overhead is the larger.
PacketBudget(udpSendPacketLen, writable, cipherOverhead) ==
  LET writableBytes == Min(udpSendPacketLen, writable)
  IN  IF writableBytes < cipherOverhead THEN 0
      ELSE writableBytes - cipherOverhead

\* No loop condition has been evaluated in the call.
NoCheck ==
  [pktSent |-> 0, elapsed |-> 0, hasData |-> FALSE, result |-> FALSE,
   writableBytes |-> Absent]

\* The state before a call that differs in timing (timed) or in what the
\* budget of a packet is made of.
CallInit(timings, budgets) ==
  /\ streams = UCStreams
  /\ written = [s \in StreamLikes |-> UCStreams[s].writeBuffer]
  /\ streamLog = NoStreamLog
  /\ checkFailed = None
  /\ reason = None
  /\ outstandings = <<>>
  /\ nextPacketNum = [s \in PacketNumberSpaces |-> 0]
  /\ pendingEvents = [NoPendingEvents EXCEPT !.sendPing = TRUE]
  /\ notified = [congestionController |-> 0, pacer |-> 0]
  /\ lastPacket = NoPacket
  /\ ioBufBatch = [threadLocal |-> FALSE, pktSent |-> 0, size |-> 0]
  /\ happyEyeballsState =
       [shouldWriteToFirstSocket |-> TRUE, shouldWriteToSecondSocket |-> FALSE,
        connAttemptDelayTimeout |-> "none"]
  /\ errno = "0"
  /\ readPaused = [first |-> FALSE, second |-> FALSE]
  /\ flushLog = NoFlushLog
  /\ RestIdle
  /\ \E t \in timings, b \in budgets :
       /\ conn = [MakeConn(0, <<TRUE, FALSE, FALSE, FALSE>>,
                           [s \in PacketNumberSpaces |-> NoAckView],
                           [s \in CryptoStreams |-> NoCryptoData],
                           <<FALSE, Absent>>, b.congestionController,
                           [resets |-> 0, hasWindowUpdates |-> FALSE,
                            connWindowUpdate |-> FALSE, hasBlocked |-> FALSE,
                            sendConnFlowControlBytesWire |-> 1,
                            hasWritable |-> FALSE, frames |-> 0,
                            sendPing |-> TRUE])
                    EXCEPT !.udpSendPacketLen = b.udpSendPacketLen]
       /\ lossState = [largestSent |-> Absent, totalPacketsSent |-> 0,
                       totalAckElicitingPacketsSent |-> 0,
                       totalBytesRetransmitted |-> 0,
                       totalStreamBytesCloned |-> 0, srtt |-> t.srtt]
       /\ loop = [pc |-> "idle", pnSpace |-> "AppData", builds |-> 0,
                  writeSuccess |-> TRUE, packetLimit |-> MaxPackets,
                  batchSize |-> t.batchSize,
                  writeLimitRttFraction |-> t.writeLimitRttFraction,
                  toSend |-> t.toSend, elapsed |-> 0, checks |-> 0,
                  writableBytesFunc |-> b.writableBytesFunc,
                  cipherOverhead |-> b.cipherOverhead, lastCheck |-> NoCheck]

Timings ==
  [srtt : 0..MaxSrtt, batchSize : 0..MaxPackets, writeLimitRttFraction : 1..2,
   toSend : {1, MaxPackets + 1}]

Budgets ==
  [udpSendPacketLen : 1..MaxUdpSendPacketLen,
   congestionController : {Absent} \cup (0..MaxWritableBytes),
   writableBytesFunc : {"unlimitedWritableBytes", "congestionControlWritableBytes"},
   cipherOverhead : 0..MaxCipherOverhead]

\* Calls that differ in timing, with one budget.
TimeInit ==
  CallInit(Timings,
           {[udpSendPacketLen |-> MaxUdpSendPacketLen,
             congestionController |-> Absent,
             writableBytesFunc |-> "unlimitedWritableBytes",
             cipherOverhead |-> 0]})

\* Calls that differ in the budget, with no round trip time measured yet.
BudgetInit ==
  CallInit({[srtt |-> 0, batchSize |-> MaxPackets, writeLimitRttFraction |-> 1,
             toSend |-> MaxPackets + 1]},
           Budgets)

\* Time passes while the call runs.
Tick ==
  /\ loop.pc = "running"
  /\ loop.elapsed < MaxElapsed
  /\ loop' = [loop EXCEPT !.elapsed = @ + 1]
  /\ UNCHANGED <<restVars, wrVars, streamVars, checkFailed, connVars, batchVars>>

\* The loop condition is evaluated; when it holds the pass begins: the
\* packet number is read and the budget of the packet worked out.
CheckCondition ==
  /\ loop.pc = "running"
  /\ checkFailed = None
  /\ loop.checks = ioBufBatch.pktSent
  /\ LET hasData == loop.builds < loop.toSend
         result ==
           LoopCondition(hasData, ioBufBatch.pktSent, loop.packetLimit,
                         loop.batchSize,
                         writeLoopTimeLimit(loop.elapsed, lossState.srtt,
                                            loop.writeLimitRttFraction))
     IN  loop' = [loop EXCEPT
                    !.checks = @ + 1,
                    !.lastCheck =
                       [pktSent |-> ioBufBatch.pktSent, elapsed |-> loop.elapsed,
                        hasData |-> hasData, result |-> result,
                        writableBytes |->
                          IF result
                            THEN PacketBudget(
                                   conn.udpSendPacketLen,
                                   WritableBytesOf(loop.writableBytesFunc, conn),
                                   loop.cipherOverhead)
                            ELSE Absent]]
  /\ UNCHANGED <<restVars, wrVars, streamVars, checkFailed, connVars, batchVars>>

\* The rest of a pass the loop condition has let through.
TimeIteration ==
  /\ loop.checks = ioBufBatch.pktSent + 1
  /\ loop.lastCheck.result
  /\ Iteration({<<ControlFrame("PingFrame")>>}, {}, {conn.udpSendPacketLen},
               {FALSE}, FALSE)

\* The loop condition was false: the call flushes and returns.
TimeEnd ==
  /\ loop.checks = ioBufBatch.pktSent + 1
  /\ ~loop.lastCheck.result
  /\ LoopEnd

TimeNext == LoopBegin \/ Tick \/ CheckCondition \/ TimeIteration \/ TimeEnd

SpecTime == TimeInit /\ [][TimeNext]_vars

SpecBudget == BudgetInit /\ [][TimeNext]_vars

\* ---- the specification of the packet numbers ----

\* The packet numbers a space gives out before the calls stop.
MaxPacketNumber == 2

\* A slip: the close packet leaves its packet number to the next packet.
NumberAfterClose_kept(packetNum) == packetNum

\* increaseNextPacketNum of writeCloseCommon, whatever the socket write
\* returns.
NumberAfterClose(packetNum) == packetNum + 1

\* writeCloseCommon returns before the packet is built when the close frame
\* does not fit (written == 0); otherwise the packet takes a packet number.
CloseTakesNumber(frameWritten) == frameWritten # 0

\* writeConnectionDataToSocket is called with a scheduler of new data, as
\* writeQuicDataToSocketImpl does after the probes.
DataCall ==
  /\ loop.pc = "notCalled"
  /\ loop' = [loop EXCEPT !.pc = "idle", !.passes = <<"data">>,
                          !.packetLimit = 1]
  /\ UNCHANGED <<restVars, wrVars, streamVars, checkFailed, connVars, batchVars>>

\* writeD6DProbeToSocket with a probe asked for: a packet number is skipped
\* and writeConnectionDataToSocket is called with the D6D probe scheduler
\* and a packet limit of 1, in the AppData space.
D6DProbeBegin ==
  /\ loop.pc = "notCalled"
  /\ nextPacketNum' = [nextPacketNum EXCEPT !["AppData"] = @ + 1]
  /\ loop' = [loop EXCEPT !.pc = "idle", !.passes = <<"d6d">>,
                          !.pnSpace = "AppData", !.packetLimit = 1]
  /\ UNCHANGED <<restVars, wrVars, streamVars, checkFailed, outstandings,
                 pendingEvents, lossState, notified, lastPacket, batchVars>>

\* One pass of the loop of a data call or of a D6D probe call.
NumberedIteration ==
  /\ loop.pc = "running"
  /\ loop.passes \in {<<"data">>, <<"d6d">>}
  /\ WithinPacketLimit(ioBufBatch.pktSent, loop.packetLimit)
  /\ Iteration({<<ControlFrame("PingFrame")>>, <<ControlFrame("PaddingFrame")>>},
               {"NoFrames"}, {conn.udpSendPacketLen},
               {loop.passes = <<"d6d">>}, FALSE)

\* writeCloseCommon: the header carries the next packet number of the
\* space; when the close frame fits, the packet is built, the packet number
\* of the space is increased and the packet is written to the socket,
\* whatever the write returns.  updateConnection is not called.
WriteClose ==
  /\ loop.pc = "notCalled"
  /\ \E frameWritten \in {0, 1} :
       IF CloseTakesNumber(frameWritten)
         THEN /\ nextPacketNum' =
                   [nextPacketNum EXCEPT
                      ![loop.pnSpace] = NumberAfterClose(@)]
              /\ loop' = [loop EXCEPT
                            !.pc = "done", !.passes = <<"close">>,
                            !.closePacketNum = nextPacketNum[loop.pnSpace]]
         ELSE /\ nextPacketNum' = nextPacketNum
              /\ loop' = [loop EXCEPT !.pc = "done", !.passes = <<"close">>,
                                      !.closePacketNum = Absent]
  /\ UNCHANGED <<restVars, wrVars, streamVars, checkFailed, outstandings,
                 pendingEvents, lossState, notified, lastPacket, batchVars>>

\* The call has returned; the next one is made with a batch of its own, in
\* the Initial or the AppData space.
NextSend ==
  /\ \/ loop.pc = "done"
     \/ loop.pc = "returned" /\ loop.passes \in {<<"data">>, <<"d6d">>}
  /\ checkFailed = None
  /\ nextPacketNum["Initial"] + nextPacketNum["AppData"] < MaxPacketNumber
  /\ \E space \in {"Initial", "AppData"} :
       loop' = [loop EXCEPT !.pc = "notCalled", !.pnSpace = space,
                            !.passes = <<>>, !.builds = 0,
                            !.writeSuccess = TRUE, !.packetLimit = 0,
                            !.cloned = 0, !.probesWritten = 0,
                            !.sendPingSet = FALSE]
  /\ ioBufBatch' = [ioBufBatch EXCEPT !.pktSent = 0]
  /\ UNCHANGED <<restVars, wrVars, streamVars, checkFailed, connVars,
                 happyEyeballsState, errno, readPaused, flushLog>>

NumbersNext ==
  ProbeBegin \/ DataCall \/ D6DProbeBegin \/ WriteClose \/ LoopBegin
    \/ ProbeIteration \/ NumberedIteration \/ LoopEnd \/ PingFallback
    \/ ProbeReturn \/ NextSend

\* A connection before the calls: a packet with the first byte of the
\* stream is outstanding in the AppData space or none is; the batch writes
\* to one socket.
NumbersInit ==
  /\ ClassifierIdle
  /\ \E hasOutstanding \in BOOLEAN :
       /\ streams =
            [s \in StreamLikes |->
               IF s = "stream0" /\ hasOutstanding
                 THEN handleNewStreamDataWritten(
                        writeDataToQuicStream(EmptyStream, <<0>>, FALSE), 1,
                        FALSE).value
                 ELSE EmptyStream]
       /\ written = [s \in StreamLikes |->
                       IF s = "stream0" /\ hasOutstanding THEN <<0>> ELSE <<>>]
       /\ outstandings =
            IF hasOutstanding
              THEN <<[packetNum |-> 0, space |-> "AppData", isHandshake |-> FALSE,
                      associatedEvent |-> FALSE, cryptoOffset |-> Absent]>>
              ELSE <<>>
       /\ nextPacketNum = [s \in PacketNumberSpaces |->
                             IF s = "AppData" /\ hasOutstanding THEN 1 ELSE 0]
       /\ pendingEvents = [NoPendingEvents EXCEPT
                             !.setLossDetectionAlarm = hasOutstanding]
       /\ lossState =
            [largestSent |-> IF hasOutstanding THEN 0 ELSE Absent,
             totalPacketsSent |-> IF hasOutstanding THEN 1 ELSE 0,
             totalAckElicitingPacketsSent |-> IF hasOutstanding THEN 1 ELSE 0,
             totalBytesRetransmitted |-> 0, totalStreamBytesCloned |-> 0]
       /\ notified = [congestionController |-> IF hasOutstanding THEN 1 ELSE 0,
                      pacer |-> IF hasOutstanding THEN 1 ELSE 0]
  /\ loop = [pc |-> "notCalled", pnSpace |-> "AppData", builds |-> 0,
             writeSuccess |-> TRUE, packetLimit |-> 0, probesToSend |-> 1,
             passes |-> <<>>, cloned |-> 0, probesWritten |-> 0,
             sendPingSet |-> FALSE, closePacketNum |-> Absent]
  /\ streamLog = NoStreamLog
  /\ checkFailed = None
  /\ lastPacket = NoPacket
  /\ ioBufBatch = [threadLocal |-> FALSE, pktSent |-> 0, size |-> 0]
  /\ happyEyeballsState =
       [shouldWriteToFirstSocket |-> TRUE, shouldWriteToSecondSocket |-> FALSE,
        connAttemptDelayTimeout |-> "none"]
  /\ errno = "0"
  /\ readPaused = [first |-> FALSE, second |-> FALSE]
  /\ flushLog = NoFlushLog
  /\ RestIdle

SpecNumbers == NumbersInit /\ [][NumbersNext]_vars

\* ---- the specification of the encoding ----

\* A call of writeConnectionDataToSocket with an aead of some cipher
\* overhead and hash index, a header builder whose headers have some
\* length, and a scheduler whose packets have bodies of some length.
EncodeInit ==
  /\ ConnWithData
  /\ BatchInit
  /\ \E headerLen \in 1..MaxHeaderLen, bodyLen \in 1..MaxBodyLen,
        cipherOverhead \in 0..MaxCipherOverhead, hashIndex \in {0, 1} :
       loop = [pc |-> "idle", pnSpace |-> "AppData", builds |-> 0,
               writeSuccess |-> TRUE, headerLen |-> headerLen,
               bodyLen |-> bodyLen, cipherOverhead |-> cipherOverhead,
               hashIndex |-> hashIndex]
  /\ implicitAck = [l \in {"Initial", "Handshake"} |-> NoImplicitAck]
  /\ looper = NewLooper
  /\ \E dataPathType \in {"ChainedMemory", "ContinuousMemory"} :
       build = NoBuild(dataPathType)

\* One pass of the loop: the packet has the size its data path encodes.
EncodeIteration ==
  Iteration(BuildPackets, {"NoFrames"},
            {EncodedSize(build.dataPathType, loop.headerLen, loop.bodyLen,
                         loop.cipherOverhead, loop.hashIndex)},
            {FALSE}, FALSE)

EncodeNext == LoopBegin \/ EncodeIteration \/ LoopEnd

SpecEncode == EncodeInit /\ [][EncodeNext]_vars

\* ---- the specification of the ack side of the classifier ----

AckConns ==
  ConnInit(BOOLEAN \X BOOLEAN \X BOOLEAN \X BOOLEAN,
        [PacketNumberSpaces -> AckStateViews],
        { [s \in CryptoStreams |-> IF s = "oneRttStream"
                                     THEN [writeBuffer |-> w, lossBuffer |-> 0]
                                     ELSE NoCryptoData] : w \in 0..1 },
        [resets : {0}, hasWindowUpdates : {FALSE}, connWindowUpdate : {FALSE},
         hasBlocked : {FALSE}, sendConnFlowControlBytesWire : {1},
         hasWritable : BOOLEAN, frames : {0}, sendPing : {FALSE}])

AckInit ==
  /\ AckConns
  /\ reason = None
  /\ StreamsIdle
  /\ ConnIdle
  /\ RestIdle

ShouldWriteData ==
  /\ reason = None
  /\ congestionControlChecks(conn)
  /\ reason' = shouldWriteData(conn)
  /\ UNCHANGED <<restVars, conn, streamVars, checkFailed, connVars, batchVars, loop>>

AckNext == ShouldWriteData

SpecAck == AckInit /\ [][AckNext]_vars

\* ---- the specification of the whole priority order ----

WRConns ==
  ConnInit({FALSE} \X {FALSE} \X BOOLEAN \X BOOLEAN \cup
          {TRUE} \X {FALSE} \X BOOLEAN \X BOOLEAN,
        { [s \in PacketNumberSpaces |-> IF s = "AppData" THEN v ELSE NoAckView] :
            v \in {NoAckView, [hasAcksToSchedule |-> TRUE,
                               needsToSendAckImmediately |-> TRUE]} },
        { [s \in CryptoStreams |-> IF s = "initialStream" THEN d ELSE NoCryptoData] :
            d \in {NoCryptoData, [writeBuffer |-> 1, lossBuffer |-> 0],
                   [writeBuffer |-> 0, lossBuffer |-> 1]} },
        [resets : 0..1, hasWindowUpdates : BOOLEAN, connWindowUpdate : BOOLEAN,
         hasBlocked : BOOLEAN, sendConnFlowControlBytesWire : 0..1,
         hasWritable : BOOLEAN, frames : 0..1, sendPing : BOOLEAN])

WRInit ==
  /\ WRConns
  /\ reason = None
  /\ StreamsIdle
  /\ ConnIdle
  /\ RestIdle

WRNext == ShouldWriteData

SpecWR == WRInit /\ [][WRNext]_vars

(***************************************************************************)
(* implicitAckCryptoStream and handshakeConfirmed.                         *)
(***************************************************************************)

EncryptionLevels == {"Initial", "Handshake"}

\* The packet number space of an encryption level that is discarded.
SpaceOfLevel(level) == IF level = "Handshake" THEN "Handshake" ELSE "Initial"

\* The packet numbers of the outstanding packets of a space.
OutstandingNums(packets, space) ==
  { packets[i].packetNum : i \in { j \in 1..Len(packets) : packets[j].space = space } }

\* The one ack block of the implicit ack: from the start of the first
\* interval of the packet numbers to the end of the last one.
ImplicitAckBlock(nums) ==
  [start |-> CHOOSE n \in nums : \A m \in nums : n <= m,
   end |-> CHOOSE n \in nums : \A m \in nums : m <= n]

\* processAckFrame for the space and one ack block: the outstanding packets
\* of the space inside the block are acknowledged, the visitor is called on
\* their frames (a crypto frame: processCryptoStreamAck drops the entry of
\* the retransmission buffer at its offset) and they leave outstandings;
\* the packets of the space left below the largest acknowledged one are
\* those loss detection may report as lost.
processAckFrame(packets, strs, space, ackBlock) ==
  LET isAcked(op) == /\ op.space = space
                     /\ ackBlock.start <= op.packetNum
                     /\ op.packetNum <= ackBlock.end
      ackedIdx == { i \in 1..Len(packets) : isAcked(packets[i]) }
      offsets == { packets[i].cryptoOffset : i \in ackedIdx } \ {Absent}
      left == SelectSeq(packets, LAMBDA op : ~isAcked(op))
  IN  [packets |-> left,
       streams |-> [strs EXCEPT
                      ![CryptoStreamOf(space)].retransmissionBuffer =
                         { b \in @ : b.offset \notin offsets }],
       acked |-> { packets[i].packetNum : i \in ackedIdx },
       lost |-> { n \in OutstandingNums(left, space) : n < ackBlock.end }]

\* A slip: the loss buffer of the level is cleared before the outstanding
\* packets of the space are looked at.
implicitAckCryptoStream_clearsFirst(st, level) ==
  LET space == SpaceOfLevel(level)
      cryptoStream == CryptoStreamOf(space)
      st1 == [st EXCEPT !.streams[cryptoStream].lossBuffer = <<>>]
      nums == OutstandingNums(st1.packets, space)
      ackBlock == ImplicitAckBlock(nums)
      r == processAckFrame(st1.packets, st1.streams, space, ackBlock)
  IN  IF nums = {}
        THEN [st |-> st1,
              log |-> [ackBlock |-> NoAckBlock, acked |-> {}, lost |-> {}]]
        ELSE [st |-> [packets |-> r.packets,
                      streams |-> r.streams,
                      check |->
                        IF r.lost # {} THEN "Got loss from implicit crypto ACK."
                        ELSE IF r.streams[cryptoStream].retransmissionBuffer # {}
                          THEN "retransmissionBuffer.empty()"
                        ELSE IF r.streams[cryptoStream].writeBuffer # <<>>
                          THEN "writeBuffer.empty()"
                        ELSE None],
              log |-> [ackBlock |-> ackBlock, acked |-> r.acked, lost |-> r.lost]]

\* implicitAckCryptoStream(conn, encryptionLevel) on st = [packets, streams,
\* check]; log is what the call did.
implicitAckCryptoStream(st, level) ==
  LET space == SpaceOfLevel(level)
      nums == OutstandingNums(st.packets, space)
      ackBlock == ImplicitAckBlock(nums)
      r == processAckFrame(st.packets, st.streams, space, ackBlock)
      cryptoStream == CryptoStreamOf(space)
      cleared == [r.streams EXCEPT ![cryptoStream].lossBuffer = <<>>]
  IN  IF nums = {}
        THEN [st |-> st,
              log |-> [ackBlock |-> NoAckBlock, acked |-> {}, lost |-> {}]]
        ELSE [st |-> [packets |-> r.packets,
                      streams |-> cleared,
                      check |->
                        IF r.lost # {} THEN "Got loss from implicit crypto ACK."
                        ELSE IF cleared[cryptoStream].retransmissionBuffer # {}
                          THEN "retransmissionBuffer.empty()"
                        ELSE IF cleared[cryptoStream].writeBuffer # <<>>
                          THEN "writeBuffer.empty()"
                        ELSE None],
              log |-> [ackBlock |-> ackBlock, acked |-> r.acked, lost |-> r.lost]]

\* The log of a level after one more call.
Logged(level, log) ==
  [calls |-> implicitAck[level].calls + 1, ackBlock |-> log.ackBlock,
   acked |-> log.acked, lost |-> log.lost]

\* ---- the specification of the handshake ----

\* The handshake is under way: every cipher is installed, crypto data of
\* the Initial level waits to be written.
HandshakeInit ==
  /\ conn = MakeConn(0, <<TRUE, TRUE, TRUE, FALSE>>,
                     [s \in PacketNumberSpaces |-> NoAckView],
                     [s \in CryptoStreams |-> NoCryptoData],
                     <<FALSE, Absent>>, Absent,
                     [resets |-> 0, hasWindowUpdates |-> FALSE,
                      connWindowUpdate |-> FALSE, hasBlocked |-> FALSE,
                      sendConnFlowControlBytesWire |-> 1, hasWritable |-> FALSE,
                      frames |-> 0, sendPing |-> FALSE])
  /\ reason = None
  /\ streams = UCStreams
  /\ written = [s \in StreamLikes |-> UCStreams[s].writeBuffer]
  /\ streamLog = NoStreamLog
  /\ checkFailed = None
  /\ outstandings = <<>>
  /\ nextPacketNum = [s \in PacketNumberSpaces |-> 0]
  /\ pendingEvents = [setLossDetectionAlarm |-> FALSE, sendPing |-> TRUE,
                      sendDataBlocked |-> FALSE, resets |-> {}]
  /\ lossState = [largestSent |-> Absent, totalPacketsSent |-> 0,
                  totalAckElicitingPacketsSent |-> 0,
                  totalBytesRetransmitted |-> 0,
                  totalStreamBytesCloned |-> 0]
  /\ notified = [congestionController |-> 0, pacer |-> 0]
  /\ lastPacket = NoPacket
  /\ BatchIdle
  /\ RestIdle

\* The frames of a packet of the handshake: crypto data or none, and a ping
\* or none.
HandshakePackets(space, isClone) ==
  { d \o c :
      d \in { f \in DataFramesFor(space, isClone) :
                \A i \in 1..Len(f) : f[i].type = "WriteCryptoFrame" },
      c \in {<<>>, <<ControlFrame("PingFrame")>>} } \ {<<>>}

\* A packet of the Initial or the Handshake space is sent while the write
\* cipher of the space is installed.
HandshakePacketSent ==
  /\ checkFailed = None
  /\ PacketNumsUsed < MaxHandshakePackets
  /\ \E space \in {"Initial", "Handshake"}, isClone \in BOOLEAN :
       /\ IF space = "Initial" THEN conn.initialWriteCipher
          ELSE conn.handshakeWriteCipher
       /\ isClone => \E i \in 1..Len(outstandings) : outstandings[i].space = space
       /\ \E frames \in HandshakePackets(space, isClone) :
            UpdateConnection(
              [space |-> space, packetNum |-> nextPacketNum[space],
               frames |-> frames, isClone |-> isClone, isD6DProbe |-> FALSE],
              TRUE, TRUE)
  /\ UNCHANGED <<restVars, wrVars, written, streamLog, batchVars, loop>>

\* Loss detection declares an outstanding packet lost: the packet leaves
\* outstandings and the crypto data it carried, when it is still in the
\* retransmission buffer, moves to the loss buffer.
HandshakePacketLost ==
  /\ checkFailed = None
  /\ \E i \in 1..Len(outstandings) :
       LET op == outstandings[i]
           cryptoStream == CryptoStreamOf(op.space)
       IN  /\ outstandings' = RemoveAt(outstandings, i)
           /\ streams' =
                IF \E b \in streams[cryptoStream].retransmissionBuffer :
                     b.offset = op.cryptoOffset
                  THEN [streams EXCEPT
                          ![cryptoStream] = markStreamFrameLost(@, op.cryptoOffset)]
                  ELSE streams
  /\ UNCHANGED <<restVars, wrVars, written, streamLog, checkFailed, nextPacketNum,
                 pendingEvents, lossState, notified, lastPacket, batchVars, loop>>

\* The handshake layer has handed over and sent all its data of the level:
\* there is no optional crypto data.
NoCryptoDataToWrite(level) ==
  streams[CryptoStreamOf(SpaceOfLevel(level))].writeBuffer = <<>>

\* The keys of the Initial level are discarded before the handshake is
\* confirmed: implicitAckCryptoStream(conn, EncryptionLevel::Initial).
InitialKeysDiscarded ==
  /\ checkFailed = None
  /\ implicitAck["Initial"].calls = 0
  /\ NoCryptoDataToWrite("Initial")
  /\ LET a == implicitAckCryptoStream(
                [packets |-> outstandings, streams |-> streams, check |-> None],
                "Initial")
     IN  /\ outstandings' = a.st.packets
         /\ streams' = a.st.streams
         /\ checkFailed' = a.st.check
         /\ implicitAck' = [implicitAck EXCEPT !["Initial"] = Logged("Initial", a.log)]
  /\ UNCHANGED <<wrVars, written, streamLog, nextPacketNum, pendingEvents,
                 lossState, notified, lastPacket, batchVars, loop, looper, build>>

\* handshakeConfirmed(conn): the ciphers of the Initial and of the Handshake
\* level are dropped, each followed by the implicit ack of its level.
HandshakeConfirmed ==
  /\ checkFailed = None
  /\ conn.handshakeWriteCipher
  /\ NoCryptoDataToWrite("Initial")
  /\ NoCryptoDataToWrite("Handshake")
  /\ IF ~conn.oneRttWriteCipher
       THEN /\ checkFailed' = "oneRttWriteCipher"
            /\ UNCHANGED <<conn, outstandings, streams, implicitAck>>
       ELSE LET st0 == [packets |-> outstandings, streams |-> streams,
                        check |-> None]
                a1 == implicitAckCryptoStream(st0, "Initial")
                a2 == implicitAckCryptoStream(a1.st, "Handshake")
            IN  IF a1.st.check # None
                  THEN /\ conn' = [conn EXCEPT !.initialWriteCipher = FALSE]
                       /\ outstandings' = a1.st.packets
                       /\ streams' = a1.st.streams
                       /\ checkFailed' = a1.st.check
                       /\ implicitAck' =
                            [implicitAck EXCEPT
                               !["Initial"] = Logged("Initial", a1.log)]
                  ELSE /\ conn' = [conn EXCEPT !.initialWriteCipher = FALSE,
                                               !.handshakeWriteCipher = FALSE]
                       /\ outstandings' = a2.st.packets
                       /\ streams' = a2.st.streams
                       /\ checkFailed' = a2.st.check
                       /\ implicitAck' =
                            [l \in EncryptionLevels |->
                               Logged(l, IF l = "Initial" THEN a1.log ELSE a2.log)]
  /\ UNCHANGED <<reason, written, streamLog, nextPacketNum, pendingEvents,
                 lossState, notified, lastPacket, batchVars, loop, looper, build>>

HandshakeNext ==
  \/ HandshakePacketSent
  \/ HandshakePacketLost
  \/ InitialKeysDiscarded
  \/ HandshakeConfirmed

SpecHandshake == HandshakeInit /\ [][HandshakeNext]_vars

(***************************************************************************)
(* FunctionLooper.                                                         *)
(***************************************************************************)

\* A slip: stop leaves the pacing timeout scheduled.
stop_keepsTimeout(l) ==
  [l EXCEPT !.running = FALSE, !.loopCallbackScheduled = FALSE]

\* FunctionLooper::stop: running_ = false, cancelLoopCallback, cancelTimeout.
stop(l) ==
  [l EXCEPT !.running = FALSE, !.loopCallbackScheduled = FALSE,
            !.timeoutScheduled = FALSE]

\* A slip: run does not look at whether it is called from the loop body.
run_fromTheBodyToo(l) ==
  LET l1 == [l EXCEPT !.running = TRUE]
  IN  IF l.loopCallbackScheduled \/ l.timeoutScheduled THEN l1
      ELSE [l1 EXCEPT !.loopCallbackScheduled = TRUE]

\* A slip: run does not look at whether the pacing timeout is pending.
run_overPendingTimeout(l) ==
  LET l1 == [l EXCEPT !.running = TRUE]
  IN  IF l.pacingTimer /\ l.inLoopBody THEN l1
      ELSE IF l.loopCallbackScheduled THEN l1
      ELSE [l1 EXCEPT !.loopCallbackScheduled = TRUE]

\* FunctionLooper::run: in the loop body of a paced looper, and when a loop
\* callback or the timeout is pending already, nothing is scheduled.
run(l) ==
  LET l1 == [l EXCEPT !.running = TRUE]
  IN  IF l.pacingTimer /\ l.inLoopBody THEN l1
      ELSE IF l.loopCallbackScheduled \/ l.timeoutScheduled THEN l1
      ELSE [l1 EXCEPT !.loopCallbackScheduled = TRUE]

\* A slip: the timeout is scheduled for a delay of zero as well.
schedulePacingTimeout_anyDelay(l, nextPacingTime) ==
  IF l.pacingFunc /\ l.pacingTimer /\ ~l.timeoutScheduled
    THEN [l |-> [l EXCEPT !.timeoutScheduled = TRUE], value |-> TRUE]
    ELSE [l |-> l, value |-> FALSE]

\* FunctionLooper::schedulePacingTimeout, with nextPacingTime the answer of
\* the pacing function when it is asked.
schedulePacingTimeout(l, nextPacingTime) ==
  IF l.pacingFunc /\ l.pacingTimer /\ ~l.timeoutScheduled
    THEN IF nextPacingTime # 0
           THEN [l |-> [l EXCEPT !.timeoutScheduled = TRUE], value |-> TRUE]
           ELSE [l |-> l, value |-> FALSE]
    ELSE [l |-> l, value |-> FALSE]

\* FunctionLooper::commonLoopBody up to the call of func_.
commonLoopBodyBegin(l, fromTimer) ==
  [l EXCEPT !.inLoopBody = TRUE, !.fromTimer = fromTimer, !.fired = @ + 1]

\* A slip: a looper that is not put on the pacing timer is not put in the
\* event base either.
commonLoopBodyEnd_timerOnly(l, nextPacingTime) ==
  LET r == schedulePacingTimeout(l, nextPacingTime)
      armed == IF ~l.running THEN l ELSE r.l
  IN  [armed EXCEPT !.inLoopBody = FALSE, !.nextPacingTime = nextPacingTime]

\* FunctionLooper::commonLoopBody after func_ has returned: a looper that
\* still runs is scheduled on the pacing timer or in the event base;
\* inLoopBody_ is cleared when the scope is left.
commonLoopBodyEnd(l, nextPacingTime) ==
  LET r == schedulePacingTimeout(l, nextPacingTime)
      armed == IF ~l.running THEN l
               ELSE IF r.value THEN r.l
               ELSE [r.l EXCEPT !.loopCallbackScheduled = TRUE]
  IN  [armed EXCEPT !.inLoopBody = FALSE, !.nextPacingTime = nextPacingTime]

\* FunctionLooper::detachEventBase: stop, cancelTimeout, evb_ = nullptr.
detachEventBase(l) ==
  [stop(l) EXCEPT !.timeoutScheduled = FALSE, !.evb = FALSE]

\* ---- the specification of the looper ----

LooperInit ==
  /\ ClassifierIdle
  /\ StreamsIdle
  /\ ConnIdle
  /\ implicitAck = [l \in {"Initial", "Handshake"} |-> NoImplicitAck]
  /\ looper = NewLooper
  /\ build = NoBuild("ContinuousMemory")

LooperBecomes(l) ==
  /\ looper' = l
  /\ UNCHANGED <<wrVars, streamVars, checkFailed, connVars, batchVars, loop,
                 implicitAck, build>>

\* looper.run(), by the owner of the looper or by the looped function.
Run == looper.evb /\ LooperBecomes(run(looper))

\* looper.stop(), by the owner of the looper or by the looped function.
Stop ==
  /\ looper' = stop(looper)
  /\ UNCHANGED <<wrVars, streamVars, checkFailed, connVars, batchVars, loop,
                 implicitAck, build>>

\* setPacingTimer and setPacingFunction, when the owner sets the looper up.
SetPacingTimer ==
  /\ ~looper.inLoopBody
  /\ ~looper.pacingTimer
  /\ LooperBecomes([looper EXCEPT !.pacingTimer = TRUE])

SetPacingFunction ==
  /\ ~looper.inLoopBody
  /\ ~looper.pacingFunc
  /\ LooperBecomes([looper EXCEPT !.pacingFunc = TRUE])

AttachEventBase ==
  /\ ~looper.inLoopBody
  /\ ~looper.evb
  /\ LooperBecomes([looper EXCEPT !.evb = TRUE])

DetachEventBase ==
  /\ ~looper.inLoopBody
  /\ looper.evb
  /\ LooperBecomes(detachEventBase(looper))

\* The event base runs the loop callback: runLoopCallback calls the loop
\* body, which calls func_.
RunLoopCallback ==
  /\ looper.loopCallbackScheduled
  /\ ~looper.inLoopBody
  /\ looper.fired < MaxLoops
  /\ LooperBecomes(
       commonLoopBodyBegin([looper EXCEPT !.loopCallbackScheduled = FALSE], FALSE))

\* The pacing timer fires: timeoutExpired calls the loop body.
TimeoutExpired ==
  /\ looper.timeoutScheduled
  /\ ~looper.inLoopBody
  /\ looper.fired < MaxLoops
  /\ LooperBecomes(
       commonLoopBodyBegin([looper EXCEPT !.timeoutScheduled = FALSE], TRUE))

\* func_ returns and the loop body ends.
FuncReturns ==
  /\ looper.inLoopBody
  /\ \E nextPacingTime \in (IF looper.pacingFunc THEN 0..MaxPacingDelay ELSE {0}) :
       LooperBecomes(commonLoopBodyEnd(looper, nextPacingTime))

LooperNext ==
  \/ Run
  \/ Stop
  \/ SetPacingTimer
  \/ SetPacingFunction
  \/ AttachEventBase
  \/ DetachEventBase
  \/ RunLoopCallback
  \/ TimeoutExpired
  \/ FuncReturns

SpecLooper == LooperInit /\ [][LooperNext]_vars

\* The event base runs the loop callbacks it holds, the timer fires the
\* timeouts it holds, and the looped function returns.
SpecLooperFair ==
  /\ SpecLooper
  /\ WF_vars(RunLoopCallback)
  /\ WF_vars(TimeoutExpired)
  /\ WF_vars(FuncReturns)

(***************************************************************************)
(* The claims.                                                             *)
(***************************************************************************)

\* C1: with no probes requested and hasAckDataToWrite true, shouldWriteData
\* returns ACK, also when the congestion window leaves no writable bytes and
\* stream data is pending.
C1_AckBeforeCongestionWindow ==
  (reason # None /\ conn.numProbePackets = 0 /\ hasAckDataToWrite(conn))
    => reason = "ACK"

C1_Witness ==
  /\ reason = "ACK"
  /\ conn.numProbePackets = 0
  /\ congestionControlWritableBytes(conn) = 0
  /\ conn.hasWritable
  /\ conn.sendConnFlowControlBytesWire # 0

\* The priority order as the reference lists it: each entry is a condition
\* on the pending state and the reason returned when it is the first to hold.
ReferenceOrder(c) ==
  << [when |-> c.numProbePackets # 0, reason |-> "PROBES"],
     [when |-> hasAckDataToWrite(c), reason |-> "ACK"],
     [when |-> congestionControlWritableBytes(c) = 0, reason |-> "NO_WRITE"],
     [when |-> cryptoHasWritableData(c), reason |-> "CRYPTO_STREAM"],
     [when |-> ~c.oneRttWriteCipher /\ ~c.zeroRttWriteCipher, reason |-> "NO_WRITE"],
     [when |-> c.resets # 0, reason |-> "RESET"],
     [when |-> c.hasWindowUpdates, reason |-> "STREAM_WINDOW_UPDATE"],
     [when |-> c.connWindowUpdate, reason |-> "CONN_WINDOW_UPDATE"],
     [when |-> c.hasBlocked, reason |-> "BLOCKED"],
     [when |-> c.hasWritable /\ c.sendConnFlowControlBytesWire # 0,
      reason |-> "STREAM"],
     [when |-> c.frames # 0, reason |-> "SIMPLE"],
     [when |-> c.pathChallenge, reason |-> "PATHCHALLENGE"],
     [when |-> c.sendPing, reason |-> "PING"],
     [when |-> TRUE, reason |-> "NO_WRITE"] >>

FirstMatch(order) ==
  order[CHOOSE i \in 1..Len(order) :
          order[i].when /\ \A j \in 1..(i - 1) : ~order[j].when].reason

\* C2: for every combination of the pending-state inputs shouldWriteData
\* returns the first matching reason of the reference order.
C2_FirstMatchOfReferenceOrder ==
  reason # None => reason = FirstMatch(ReferenceOrder(conn))

C2_Witness ==
  /\ reason = "BLOCKED"
  /\ conn.hasBlocked
  /\ conn.hasWritable
  /\ conn.sendConnFlowControlBytesWire # 0
  /\ conn.frames # 0
  /\ conn.sendPing

\* Some packet number space has acks to schedule and owes an immediate ack.
AckDueIn(c, space) ==
  /\ c.ackStates[space].hasAcksToSchedule
  /\ c.ackStates[space].needsToSendAckImmediately

\* The write cipher of a packet number space is installed.
WriteCipherOf(c, space) ==
  CASE space = "Initial" -> c.initialWriteCipher
    [] space = "Handshake" -> c.handshakeWriteCipher
    [] OTHER -> c.oneRttWriteCipher

\* C3 as stated: with no probes requested and an immediate ack due in some
\* packet number space, shouldWriteData returns ACK whatever write ciphers
\* are installed.
C3_AckWhateverTheCiphers ==
  (reason # None /\ conn.numProbePackets = 0
     /\ \E space \in PacketNumberSpaces : AckDueIn(conn, space))
    => reason = "ACK"

\* C3, amended: with no probes requested and an immediate ack due in some
\* packet number space whose write cipher is installed, shouldWriteData
\* returns ACK, whatever the rest of the connection state is.
C3_AckWhenCipherInstalled ==
  (reason # None /\ conn.numProbePackets = 0
     /\ \E space \in PacketNumberSpaces :
          AckDueIn(conn, space) /\ WriteCipherOf(conn, space))
    => reason = "ACK"

C3_Witness ==
  /\ reason = "ACK"
  /\ conn.numProbePackets = 0
  /\ AckDueIn(conn, "Handshake")
  /\ conn.handshakeWriteCipher
  /\ ~conn.initialWriteCipher
  /\ ~conn.oneRttWriteCipher
  /\ congestionControlWritableBytes(conn) = 0

\* The packet of the step is in the container after the step, and the
\* container has grown by it.
Inserted ==
  /\ Len(outstandings') = Len(outstandings) + 1
  /\ \E i \in 1..Len(outstandings') :
       /\ outstandings'[i].packetNum = lastPacket'.packetNum
       /\ outstandings'[i].space = lastPacket'.space

\* C4: a packet passed to updateConnection is inserted into the outstanding
\* packets, and the congestion controller and the pacer are told of a send,
\* if and only if it holds a frame other than an ack frame or padding.
C4_OutstandingIffAckEliciting ==
  [][ lossState'.totalPacketsSent # lossState.totalPacketsSent =>
        IF lastPacket'.ackEliciting
          THEN /\ Inserted
               /\ notified'.congestionController = notified.congestionController + 1
               /\ notified'.pacer = notified.pacer + 1
          ELSE /\ outstandings' = outstandings
               /\ notified' = notified ]_vars

C4_Witness ==
  /\ lastPacket.ackEliciting
  /\ ~lastPacket.isClone
  /\ \E i \in 1..Len(outstandings) :
       /\ outstandings[i].packetNum = lastPacket.packetNum
       /\ outstandings[i].space = lastPacket.space
  /\ notified.congestionController > 0
  /\ notified.pacer > 0
  /\ lossState.totalPacketsSent > lossState.totalAckElicitingPacketsSent

RangeOf(b) == b.offset .. (b.offset + Len(b.data) - 1)

LossEntries(stream) == {stream.lossBuffer[i] : i \in 1..Len(stream.lossBuffer)}

\* C6: the byte ranges of the write buffer, of the retransmission buffer and
\* of the loss buffer of a stream are pairwise disjoint, and no range of the
\* retransmission buffer or of the loss buffer lies at or beyond
\* currentWriteOffset.
C6_BuffersDisjoint ==
  \A s \in StreamLikes :
    LET stream == streams[s]
        retx == stream.retransmissionBuffer
        loss == LossEntries(stream)
        wb == stream.currentWriteOffset ..
                (stream.currentWriteOffset + Len(stream.writeBuffer) - 1)
    IN  /\ Cardinality(loss) = Len(stream.lossBuffer)
        /\ \A a \in retx \cup loss, b \in retx \cup loss :
             a # b => (a.offset # b.offset /\ RangeOf(a) \cap RangeOf(b) = {})
        /\ retx \cap loss = {}
        /\ \A a \in retx \cup loss :
             /\ RangeOf(a) \cap wb = {}
             /\ a.offset < stream.currentWriteOffset
             /\ a.offset + Len(a.data) <= stream.currentWriteOffset

C6_Witness ==
  /\ streams["stream0"].writeBuffer # <<>>
  /\ streams["stream0"].retransmissionBuffer # {}
  /\ streams["stream0"].lossBuffer # <<>>
  /\ streamLog.partial
  /\ streamLog.acked

\* The data of a set of StreamBuffers, put together in offset order.
RECURSIVE ConcatByOffset(_)
ConcatByOffset(bufs) ==
  IF bufs = {} THEN <<>>
  ELSE LET b == CHOOSE x \in bufs : \A y \in bufs : x.offset <= y.offset
       IN  b.data \o ConcatByOffset(bufs \ {b})

\* C7: when all the data of a stream has gone from the write buffer to the
\* retransmission buffer, through the loss buffer and back for any part of
\* it, with nothing acknowledged, the retransmission buffer entries put
\* together by offset are the bytes the application wrote.
C7_RoundTrip ==
  \A s \in StreamLikes :
    (~streamLog.acked /\ checkFailed = None /\ streams[s].writeBuffer = <<>>
       /\ streams[s].lossBuffer = <<>>)
      => ConcatByOffset(streams[s].retransmissionBuffer) = written[s]

C7_Witness ==
  /\ ~streamLog.acked
  /\ streamLog.partial
  /\ streams["stream0"].writeBuffer = <<>>
  /\ streams["stream0"].lossBuffer = <<>>
  /\ Len(written["stream0"]) >= 3
  /\ Cardinality(streams["stream0"].retransmissionBuffer) >= 2
  /\ ConcatByOffset(streams["stream0"].retransmissionBuffer) = written["stream0"]

\* C8: every packet the pipeline built has been folded into the connection
\* state by one updateConnection call when the loop goes on or returns, its
\* packet number used up and its record among the outstanding packets if it
\* is ack-eliciting; after a failed batch write the call has returned.
C8_BuiltPacketIsFolded ==
  /\ lossState.totalPacketsSent = loop.builds
  /\ nextPacketNum[loop.pnSpace] = loop.builds
  /\ loop.builds > 0 =>
       /\ lastPacket.packetNum = loop.builds - 1
       /\ lastPacket.ackEliciting =>
            (outstandings # <<>>
               /\ outstandings[Len(outstandings)].packetNum = lastPacket.packetNum)
  /\ ~loop.writeSuccess => loop.pc = "returned"

C8_Witness ==
  /\ loop.pc = "returned"
  /\ ~loop.writeSuccess
  /\ ~flushLog.ret
  /\ loop.builds = 2
  /\ lastPacket.ackEliciting
  /\ lastPacket.packetNum = 1
  /\ outstandings # <<>>
  /\ outstandings[Len(outstandings)].packetNum = 1

\* The error codes after which a socket is written to again.
RetriableCodes == {"EAGAIN", "EWOULDBLOCK", "ENOBUFS", "EMSGSIZE"}

\* C9: a flush of a batch that is not empty, in which every write to a
\* socket fails with a retriable error, returns false and throws nothing.
C9_RetriableFlushReturnsFalse ==
  (flushLog.flushed /\ flushLog.writes # <<>>
     /\ \A i \in 1..Len(flushLog.writes) :
          flushLog.writes[i].outcome \in RetriableCodes)
    => (~flushLog.ret /\ flushLog.thrown = NoException)

C9_Witness ==
  /\ flushLog.flushed
  /\ Len(flushLog.writes) = 2
  /\ flushLog.writes[1].outcome = "EMSGSIZE"
  /\ flushLog.writes[2].outcome = "ENOBUFS"
  /\ ~flushLog.ret
  /\ flushLog.thrown = NoException

\* The error code of the last write of the flush.
LastWriteError == flushLog.writes[Len(flushLog.writes)].outcome

\* C10: a flush of a batch that is not empty throws exactly when it leaves
\* both sockets ineligible: QuicInternalException with CONNECTION_ABANDONED
\* when the error of the last failed write is a network-unreachable one,
\* QuicTransportException with INTERNAL_ERROR when it is any other.
C10_FatalSignalWhenNoSocketIsLeft ==
  flushLog.flushed =>
    IF ~happyEyeballsState.shouldWriteToFirstSocket
         /\ ~happyEyeballsState.shouldWriteToSecondSocket
      THEN /\ flushLog.writes # <<>>
           /\ flushLog.thrown =
                IF isNetworkUnreachable(LastWriteError)
                  THEN [type |-> "QuicInternalException",
                        code |-> "CONNECTION_ABANDONED"]
                  ELSE [type |-> "QuicTransportException",
                        code |-> "INTERNAL_ERROR"]
      ELSE flushLog.thrown = NoException

C10_Witness ==
  /\ flushLog.flushed
  /\ Len(flushLog.writes) = 2
  /\ flushLog.writes[1].outcome = "ECONNREFUSED"
  /\ flushLog.writes[2].outcome = "ENETUNREACH"
  /\ flushLog.thrown.code = "CONNECTION_ABANDONED"
  /\ readPaused.first
  /\ readPaused.second

\* C11: flushInternal returns true, and throws nothing, exactly when the
\* batch was empty or a socket it wrote to took the batch; on an empty batch
\* it writes to no socket and leaves the eligibility of the sockets, the
\* paused reads and errno as they were.
C11_FlushInternalResult ==
  [][flushLog'.attempted =>
       /\ (flushLog'.ret /\ flushLog'.thrown = NoException)
            <=> (~flushLog'.flushed
                   \/ \E i \in 1..Len(flushLog'.writes) :
                        flushLog'.writes[i].outcome = "ok")
       /\ ~flushLog'.flushed =>
            /\ flushLog'.writes = <<>>
            /\ happyEyeballsState' = happyEyeballsState
            /\ readPaused' = readPaused
            /\ errno' = errno]_vars

C11_Witness ==
  /\ flushLog.attempted
  /\ Len(flushLog.writes) = 2
  /\ flushLog.writes[1].outcome = "ECONNREFUSED"
  /\ flushLog.writes[2].outcome = "ok"
  /\ flushLog.ret
  /\ flushLog.thrown = NoException
  /\ ~happyEyeballsState.shouldWriteToFirstSocket

\* C12: a flush that is attempted leaves no packet in the batch writer,
\* whether it returns or throws.
C12_BatchResetAfterEveryFlush ==
  flushLog.attempted => flushLog.left = 0

\* The socket the i-th write of the last flush went to is still written to.
StillEligible(i) ==
  IF flushLog.writes[i].socket = "first"
    THEN happyEyeballsState.shouldWriteToFirstSocket
    ELSE happyEyeballsState.shouldWriteToSecondSocket

\* C13, as stated: a socket whose write failed with a retriable error is
\* no longer written to and its reads are paused, and nothing is thrown.
C13_RetriableMarksIneligible ==
  \A i \in 1..Len(flushLog.writes) :
    flushLog.writes[i].outcome \in RetriableCodes
      => /\ ~StillEligible(i)
         /\ readPaused[flushLog.writes[i].socket]
         /\ flushLog.thrown = NoException

\* C13: a socket whose write failed with a retriable error is still written
\* to and its reads are not paused, and nothing is thrown.
C13_RetriableKeepsEligible ==
  \A i \in 1..Len(flushLog.writes) :
    flushLog.writes[i].outcome \in RetriableCodes
      => /\ StillEligible(i)
         /\ ~readPaused[flushLog.writes[i].socket]
         /\ flushLog.thrown = NoException

C13_Witness ==
  /\ flushLog.flushed
  /\ Len(flushLog.writes) = 2
  /\ flushLog.writes[1].outcome = "EAGAIN"
  /\ flushLog.writes[2].outcome = "ECONNREFUSED"
  /\ happyEyeballsState.shouldWriteToFirstSocket
  /\ ~readPaused.first
  /\ readPaused.second

\* updateConnection has folded a packet into the connection state.
PacketProcessed == lossState'.totalPacketsSent # lossState.totalPacketsSent

\* C19, as stated: after updateConnection has inserted a packet into the
\* outstanding packets, a packet with a ping as its only frame besides acks
\* and padding included, pendingEvents.setLossDetectionAlarm is set; and
\* updateConnection never clears the flag.
C19_AlarmSetForEveryOutstandingPacket ==
  [][/\ (PacketProcessed /\ Inserted) => pendingEvents'.setLossDetectionAlarm
     /\ pendingEvents.setLossDetectionAlarm => pendingEvents'.setLossDetectionAlarm
    ]_vars

ImplicitAckRan(level) ==
  /\ implicitAck'[level].calls # implicitAck[level].calls
  /\ checkFailed' = None

\* C14, as stated: when implicitAckCryptoStream runs for a level, with any
\* number of packets of its space outstanding, all of them are acknowledged
\* by one ack block from the smallest to the largest of their numbers, none
\* is reported lost, and afterwards no packet of the space is outstanding
\* and the loss buffer, the retransmission buffer and the write buffer of
\* the crypto stream of the level are empty.
C14_ImplicitAckLeavesNothingBehind ==
  [][\A level \in EncryptionLevels :
       ImplicitAckRan(level) =>
         LET space == SpaceOfLevel(level)
             nums == OutstandingNums(outstandings, space)
             cryptoStream == streams'[CryptoStreamOf(space)]
         IN  /\ implicitAck'[level].acked = nums
             /\ nums # {} =>
                  /\ \A n \in nums : /\ implicitAck'[level].ackBlock.start <= n
                                      /\ n <= implicitAck'[level].ackBlock.end
                  /\ implicitAck'[level].ackBlock.start \in nums
                  /\ implicitAck'[level].ackBlock.end \in nums
             /\ implicitAck'[level].lost = {}
             /\ OutstandingNums(outstandings', space) = {}
             /\ cryptoStream.lossBuffer = <<>>
             /\ cryptoStream.retransmissionBuffer = {}
             /\ cryptoStream.writeBuffer = <<>>]_vars

\* C15: once stop has been called and until run is called, that is while
\* the looper is not running, no loop callback and no pacing timeout is
\* pending and the looped function is not called.
C15_StoppedLooperStaysQuiet ==
  [][/\ ~looper'.running =>
          (~looper'.loopCallbackScheduled /\ ~looper'.timeoutScheduled)
     /\ (~looper.running /\ ~looper.inLoopBody) => looper'.fired = looper.fired
    ]_vars

\* The looped function has stopped the looper it runs in.
C15_Witness ==
  /\ looper.fired > 0
  /\ looper.inLoopBody
  /\ looper.fromTimer
  /\ ~looper.running
  /\ ~looper.loopCallbackScheduled
  /\ ~looper.timeoutScheduled

BuildFailed ==
  loop.pc = "running" /\ build'.scheduled \in SchedulingFailures

C18_OversizedPacketIsNotHanded ==
  (build.buildSuccess /\ build.encodedSize > conn.udpSendPacketLen
     /\ ~build.isD6DProbe)
    => ~build.handed

C22_StrategiesReportTheSame ==
  (loop.pc # "idle" /\ build.buildSuccess) =>
    /\ build.encodedSize = loop.headerLen + loop.bodyLen + loop.cipherOverhead
    /\ \A d \in {"ChainedMemory", "ContinuousMemory"} :
         EncodedSize(d, loop.headerLen, loop.bodyLen, loop.cipherOverhead,
                     loop.hashIndex) = build.encodedSize

RECURSIVE TotalLen(_)
TotalLen(bufs) ==
  IF bufs = {} THEN 0
  ELSE LET b == CHOOSE x \in bufs : TRUE
       IN  Len(b.data) + TotalLen(bufs \ {b})

\* C23: with no acknowledgement and no loss, after calls of the
\* transmission loop that have sent k packets of new stream data, one a
\* call, the retransmission buffer of the stream has exactly k entries;
\* their offset ranges do not overlap, follow one another without a gap
\* from the write offset the stream had at the start, and their lengths add
\* up to the bytes sent; together with the write buffer they are the data
\* enqueued, so that once the write buffer is empty (after the third call
\* when three packets cover the stream) the ranges add up to all of it.
C23_DrainedInContiguousRanges ==
  LET stream == streams["stream0"]
      bufs == stream.retransmissionBuffer
  IN  checkFailed = None =>
        /\ Cardinality(bufs) = lossState.totalPacketsSent
        /\ lossState.totalPacketsSent <= loop.calls + 1
        /\ \A a \in bufs, b \in bufs : a # b => RangeOf(a) \cap RangeOf(b) = {}
        /\ \A b \in bufs :
             \/ b.offset = loop.startOffset
             \/ \E a \in bufs : a.offset + Len(a.data) = b.offset
        /\ TotalLen(bufs) = stream.currentWriteOffset - loop.startOffset
        /\ ConcatByOffset(bufs) \o stream.writeBuffer = written["stream0"]
        /\ stream.writeBuffer = <<>> => TotalLen(bufs) = Len(written["stream0"])
        /\ stream.lossBuffer = <<>>

\* Three calls have sent three packets, which cover the stream: the write
\* buffer is empty after the third.
C23_Witness ==
  /\ loop.calls = 2
  /\ loop.pc = "returned"
  /\ lossState.totalPacketsSent = 3
  /\ Cardinality(streams["stream0"].retransmissionBuffer) = 3
  /\ streams["stream0"].writeBuffer = <<>>
  /\ Len(written["stream0"]) = MaxStreamBytes
  /\ loop.startOffset = 1

\* C24: in writeProbingDataToSocket the pass with the cloning scheduler
\* comes first; the ping is fallen back on (sendPing set, a pass with the
\* ping scheduler) exactly when probes were asked for and the cloning pass
\* has written none; when the cloning pass has written a probe, no ping is
\* asked for; and the probes written by both passes together never exceed
\* probesToSend.
C24_PingOnlyWhenNothingCloned ==
  /\ loop.passes # <<>> => Head(loop.passes) = "cloning"
  /\ loop.sendPingSet <=> loop.passes = <<"cloning", "ping">>
  /\ loop.passes = <<"cloning", "ping">> =>
       loop.probesToSend > 0 /\ loop.cloned = 0
  /\ loop.pc = "done" =>
       /\ loop.passes = <<"cloning", "ping">> <=>
            (loop.probesToSend > 0 /\ loop.cloned = 0)
       /\ loop.cloned >= 1 => ~loop.sendPingSet
       /\ loop.probesWritten <= loop.probesToSend
  /\ loop.pc \notin {"notCalled", "done"} =>
       loop.probesWritten + ioBufBatch.pktSent <= loop.probesToSend

\* Nothing could be cloned, the ping has been fallen back on and written.
C24_Witness ==
  /\ loop.pc = "done"
  /\ loop.probesToSend = MaxProbes
  /\ loop.cloned = 0
  /\ loop.passes = <<"cloning", "ping">>
  /\ loop.probesWritten = 1
  /\ ~pendingEvents.sendPing

\* C26, as stated: updateConnection with a packet of more than one ack
\* frame aborts and does not update the ack state twice; with a packet of
\* exactly one ack frame it updates the ack state of the space once, with
\* the end of the first ack block.
C26_DuplicateAckFrameAborts ==
  /\ lastPacket.ackFrames > 1 =>
       checkFailed # None /\ lastPacket.ackUpdates <= 1
  /\ lastPacket.ackFrames = 1 =>
       lastPacket.ackUpdates = 1 /\ lastPacket.largestAckScheduled # Absent

SortedByOffset(lossBuffer) ==
  \A j \in 1..Len(lossBuffer), k \in 1..Len(lossBuffer) :
    j < k => lossBuffer[j].offset <= lossBuffer[k].offset

\* C28: a frame that retransmits only a prefix of a loss buffer entry (it
\* is shorter than the entry, or as long but without the FIN of the entry)
\* leaves the entry in the loss buffer with its offset advanced by frameLen,
\* its data shortened by frameLen and its FIN flag kept; the retransmission
\* buffer gains exactly the range from frameOffset to frameOffset +
\* frameLen; the loss buffer stays sorted by offset.  A frame that covers
\* the whole entry, its FIN flag included, takes the entry out of the loss
\* buffer.
C28_PartialRetransmissionSplitsEntry ==
  [][ streamLog'.last # NoWrite
      /\ (streamLog'.last # streamLog.last \/ lossState' # lossState)
      /\ checkFailed' = None =>
        LET f == streamLog'.last.frame
            old == streams[streamLog'.last.stream]
            new == streams'[streamLog'.last.stream]
            entries == {i \in 1..Len(old.lossBuffer) :
                          old.lossBuffer[i].offset = f.offset}
        IN  (f.offset # old.currentWriteOffset /\ entries # {}) =>
              LET i == CHOOSE i \in entries : TRUE
                  entry == old.lossBuffer[i]
                  prefix == \/ f.len < Len(entry.data)
                            \/ (f.len = Len(entry.data) /\ entry.eof /\ ~f.fin)
                  whole == f.len = Len(entry.data) /\ f.fin = entry.eof
              IN  /\ prefix \/ whole
                  /\ prefix =>
                       /\ new.lossBuffer =
                            [old.lossBuffer EXCEPT
                               ![i] = [offset |-> entry.offset + f.len,
                                       data |-> SubSeq(entry.data, f.len + 1,
                                                       Len(entry.data)),
                                       eof |-> entry.eof]]
                       /\ new.retransmissionBuffer \ old.retransmissionBuffer =
                            {[offset |-> f.offset,
                              data |-> SubSeq(entry.data, 1, f.len),
                              eof |-> f.fin]}
                       /\ old.retransmissionBuffer \subseteq new.retransmissionBuffer
                  /\ whole =>
                       /\ new.lossBuffer = RemoveAt(old.lossBuffer, i)
                       /\ \A k \in 1..Len(new.lossBuffer) :
                            new.lossBuffer[k].offset # f.offset
                  /\ SortedByOffset(old.lossBuffer)
                  /\ SortedByOffset(new.lossBuffer) ]_vars

\* A frame as long as a loss buffer entry, without the FIN of the entry, has
\* just been written: the entry is left with no data and its FIN, behind
\* other lost data.
C28_Witness ==
  /\ checkFailed = None
  /\ streamLog.last.stream = "stream0"
  /\ ~streamLog.last.writtenNewData
  /\ streamLog.last.frame.len > 0
  /\ ~streamLog.last.frame.fin
  /\ HasOffset(streams["stream0"].retransmissionBuffer, streamLog.last.frame.offset)
  /\ \E i \in 1..Len(streams["stream0"].lossBuffer) :
       /\ i > 1
       /\ streams["stream0"].lossBuffer[i] =
            [offset |-> streamLog.last.frame.offset + streamLog.last.frame.len,
             data |-> <<>>, eof |-> TRUE]

\* C29: in one flush the first socket is written before the second one,
\* never after it; when the first socket has not taken the batch and the
\* delayed start of the second socket is still scheduled, the delay is
\* cancelled and the second socket started before the write to the second
\* socket is considered, so that the batch is written to the second socket
\* in the same flush.
C29_FirstSocketThenSecond ==
  [][ LET ws == flushLog'.writes
          firstTook == ws # <<>> /\ ws[1] = [socket |-> "first", outcome |-> "ok"]
      IN  /\ Len(ws) <= 2
          /\ \A i \in 1..Len(ws) :
               ws[i].socket = "second" =>
                 \A j \in 1..Len(ws) : ws[j].socket = "first" => j < i
          /\ (/\ ioBufBatch'.pktSent = ioBufBatch.pktSent
              /\ flushLog'.flushed
              /\ ~firstTook
              /\ happyEyeballsState.connAttemptDelayTimeout = "scheduled") =>
                /\ happyEyeballsState'.connAttemptDelayTimeout = "cancelled"
                /\ ws # <<>>
                /\ ws[Len(ws)].socket = "second"
                /\ \A j \in 1..Len(ws) : ws[j].socket = "first" => j < Len(ws) ]_vars

\* A flush has offered the batch to the first socket, which refused it, and
\* then to the second socket, started in that flush, which took it.
C29_Witness ==
  /\ flushLog.flushed
  /\ flushLog.writes =
       <<[socket |-> "first", outcome |-> "EAGAIN"],
         [socket |-> "second", outcome |-> "ok"]>>
  /\ happyEyeballsState.connAttemptDelayTimeout = "cancelled"
  /\ happyEyeballsState.shouldWriteToSecondSocket
  /\ flushLog.ret
  /\ ioBufBatch.pktSent = 1

\* C30: writeConnectionDataToSocket terminates for a finite packet limit
\* and returns a count that is at most its packet limit; the entries that
\* write probes and then data return a total, probes plus data packets,
\* that is at most their packet limit, so that their checks of packetLimit
\* >= written never fail.
C30_WritesEndWithinPacketLimit ==
  /\ [](/\ loop.pc = "returned" => ioBufBatch.pktSent <= loop.packetLimit
        /\ \A i \in 1..Len(loop.returned) :
             loop.returned[i] <= loop.callLimit
        /\ loop.probesWritten <= loop.callLimit
        /\ loop.packetLimit <= loop.callLimit
        /\ loop.pc = "finished" =>
             /\ loop.written = loop.probesWritten + ioBufBatch.pktSent
             /\ loop.written <= loop.callLimit
        /\ checkFailed = None)
  /\ (loop.pc = "running") ~> (loop.pc \in {"returned", "thrown"})

\* An entry has returned with its packet limit used up by a probe and a
\* data packet.
C30_Witness ==
  /\ loop.pc = "finished"
  /\ loop.callLimit = 2
  /\ loop.probesWritten = 1
  /\ loop.returned = <<1, 1>>
  /\ loop.written = 2
  /\ checkFailed = None

\* The time budget of the last loop condition was used up.
BudgetExceeded ==
  /\ lossState.srtt # 0
  /\ loop.lastCheck.elapsed >= lossState.srtt \div loop.writeLimitRttFraction

\* The last loop condition had data to send and packets left in the limit.
CouldGoOn ==
  /\ loop.checks > 0
  /\ loop.lastCheck.hasData
  /\ loop.lastCheck.pktSent < loop.packetLimit

\* C31 as stated: the time budget (elapsed < srtt / writeLimitRttFraction,
\* met whenever srtt is 0) stops the loop when it is exceeded while the
\* packets sent in the call are below the batch size.
C31_BudgetStopsBelowFloor ==
  (CouldGoOn /\ BudgetExceeded /\ loop.lastCheck.pktSent < loop.batchSize)
    => ~loop.lastCheck.result

\* C31, amended: the time budget (elapsed < srtt / writeLimitRttFraction, met
\* whenever srtt is 0) stops the loop when it is exceeded once the packets
\* sent in the call have reached the batch size, and never below it: with
\* data to send and packets left in the limit, the loop goes on exactly when
\* the packets sent are below the batch size or the budget is not used up.
C31_BudgetStopsFromFloorOn ==
  CouldGoOn =>
    (loop.lastCheck.result
       <=> (loop.lastCheck.pktSent < loop.batchSize \/ ~BudgetExceeded))

\* A call that the used-up budget has ended with the batch size reached,
\* after a pass that went on below the batch size with the budget used up.
C31_Witness ==
  /\ loop.pc = "returned"
  /\ CouldGoOn
  /\ BudgetExceeded
  /\ ~loop.lastCheck.result
  /\ loop.lastCheck.pktSent = loop.batchSize
  /\ loop.batchSize > 0
  /\ lossState.srtt \div loop.writeLimitRttFraction = 0

\* C32: the budget of a packet is max(0, min(udpSendPacketLen,
\* writableBytesFunc(conn)) - cipherOverhead): it is 0 when the cipher
\* overhead is more than the budget, and the subtraction never wraps.
C32_BudgetClampedAtZero ==
  (loop.checks > 0 /\ loop.lastCheck.result) =>
    LET writable == WritableBytesOf(loop.writableBytesFunc, conn)
        limited == IF conn.udpSendPacketLen < writable
                     THEN conn.udpSendPacketLen ELSE writable
        difference == limited - loop.cipherOverhead
    IN  /\ loop.lastCheck.writableBytes
             = IF difference > 0 THEN difference ELSE 0
        /\ loop.cipherOverhead > limited => loop.lastCheck.writableBytes = 0
        /\ loop.lastCheck.writableBytes <= limited

\* A pass whose cipher overhead is more than the congestion window leaves.
C32_Witness ==
  /\ loop.checks > 0
  /\ loop.lastCheck.result
  /\ loop.writableBytesFunc = "congestionControlWritableBytes"
  /\ loop.cipherOverhead > congestionControlWritableBytes(conn)
  /\ loop.lastCheck.writableBytes = 0
  /\ loop.builds > 0

\* A step in which updateConnection folds a packet.
PacketFolded == lastPacket' # lastPacket /\ checkFailed' = None

\* A step in which writeCloseCommon sends a close packet.
ClosePacketSent ==
  /\ loop.pc = "notCalled"
  /\ loop'.passes = <<"close">>
  /\ loop'.closePacketNum # Absent

\* What a step does to the packet numbers: the next packet number of a
\* space stays or grows by one; a packet folded or a close packet sent
\* carries it and makes it grow; a pass that builds no packet leaves it.
PacketNumbersStep ==
  /\ \A space \in PacketNumberSpaces :
      nextPacketNum'[space] \in
        {nextPacketNum[space], nextPacketNum[space] + 1}
  /\ PacketFolded =>
       /\ lastPacket'.space = loop.pnSpace
       /\ lastPacket'.packetNum = nextPacketNum[loop.pnSpace]
       /\ nextPacketNum' =
            [nextPacketNum EXCEPT ![loop.pnSpace] = @ + 1]
       /\ \A i \in 1..Len(outstandings) :
            (outstandings[i].space = loop.pnSpace
               => outstandings[i].packetNum < lastPacket'.packetNum)
  /\ ClosePacketSent =>
       /\ loop'.closePacketNum = nextPacketNum[loop.pnSpace]
       /\ nextPacketNum' =
            [nextPacketNum EXCEPT ![loop.pnSpace] = @ + 1]
       /\ (lastPacket.space = loop.pnSpace
             => lastPacket.packetNum < loop'.closePacketNum)
  /\ (build' # build /\ ~build'.buildSuccess)
       => nextPacketNum' = nextPacketNum

\* C33: a packet number of a space is used for one packet only: the packet
\* folded by updateConnection on the data, probe, ping and D6D paths and
\* the close packet carry the next packet number of the space, which then
\* grows by exactly one; the next packet number never goes back; a pass
\* that builds no packet leaves it alone.
C33_PacketNumbersUsedOnce == [][PacketNumbersStep]_vars

\* A ping that probes after a close packet in the same space: the close
\* packet has number 0, the probe skips number 1 and the ping has number 2.
C33_Witness ==
  /\ loop.passes = <<"cloning", "ping">>
  /\ loop.closePacketNum = 0
  /\ loop.pnSpace = "AppData"
  /\ lastPacket.space = "AppData"
  /\ lastPacket.packetNum = 2
  /\ nextPacketNum["AppData"] = 3
  /\ nextPacketNum["Initial"] = 0

\* The packets updateConnection has folded since the entry was called: the
\* connection begins with one packet sent for each byte of the stream.
FoldedInCall == lossState.totalPacketsSent - Len(written["stream0"])

\* What a step of an entry does to numProbePackets: it changes only when
\* writeProbingDataToSocket has returned, by what the call returned, which
\* is the number of probes folded.
ProbeCountStep ==
  /\ pendingEvents'.numProbePackets # pendingEvents.numProbePackets
       => loop.pc = "done" /\ loop'.pc = "idle"
  /\ (loop.pc = "done" /\ loop'.pc = "idle") =>
       /\ pendingEvents'.numProbePackets
            = pendingEvents.numProbePackets - loop.probesWritten
       /\ loop.probesWritten = FoldedInCall
       /\ loop.probesWritten <= loop.probesToSend

\* C34: in writeQuicDataToSocketImpl and writeCryptoAndAckDataToSocket
\* numProbePackets decreases by exactly what writeProbingDataToSocket
\* returns, which is the number of probes updateConnection has folded in
\* the call, a probe whose socket write failed included; it never goes
\* below zero and it stays when no probe is asked for.
C34_ProbeCountFollowsProbesWritten ==
  /\ [](pendingEvents.numProbePackets >= 0 /\ checkFailed = None)
  /\ [][ProbeCountStep]_vars

\* Two probes are folded, the socket write of the second has failed, and
\* numProbePackets has gone from 2 to 0.
C34_Witness ==
  /\ loop.pc = "idle"
  /\ loop.passes = <<"cloning", "data">>
  /\ loop.probesToSend = 2
  /\ loop.probesWritten = 2
  /\ FoldedInCall = 2
  /\ ~loop.writeSuccess
  /\ pendingEvents.numProbePackets = 0

\* shouldWriteData of the connection as it is.
WriteReasonNow ==
  shouldWriteData([conn EXCEPT
                     !.numProbePackets = pendingEvents.numProbePackets])

\* C35: with numProbePackets above 0, writeQuicDataToSocket called again
\* and again with a packet limit of 1 or more, packets that can be built
\* and no fatal socket error, every call writes at least one probe, a clone
\* or the ping fallen back on, so numProbePackets reaches 0 and
\* shouldWriteData stops answering PROBES.
C35_ProbesAreWrittenAndRunOut ==
  /\ [](loop.pc = "finished" => loop.probesWritten >= 1)
  /\ [](checkFailed = None)
  /\ <>[](loop.pc = "thrown"
           \/ (pendingEvents.numProbePackets = 0 /\ WriteReasonNow # "PROBES"))

\* Two calls have written a probe each, the first a clone of the
\* outstanding packet, the second a ping fallen back on, and no probe is
\* left to write.
C35_Witness ==
  /\ loop.pc = "finished"
  /\ loop.probesWritten = 1
  /\ loop.cloned = 0
  /\ loop.sendPingSet
  /\ written["stream0"] = <<0>>
  /\ FoldedInCall >= 2
  /\ \E i \in 1..Len(outstandings) : outstandings[i].associatedEvent
  /\ pendingEvents.numProbePackets = 0
  /\ WriteReasonNow # "PROBES"

\* A wake-up of the looper is pending after the step that was not before.
NewWakeUp ==
  \/ looper'.loopCallbackScheduled /\ ~looper.loopCallbackScheduled
  \/ looper'.timeoutScheduled /\ ~looper.timeoutScheduled

\* The step calls the looped function.
BodyBegins == looper'.fired = looper.fired + 1

\* What a step of a paced looper may do: nothing is scheduled from inside
\* the looped function, nothing is scheduled outside of it while a wake-up
\* is pending, a timeout stays until it expires or the looper is stopped,
\* and a body that begins while the timeout is pending is the timer's.
PacedStep ==
  /\ (looper.pacingTimer /\ looper.inLoopBody /\ looper'.inLoopBody)
       => ~NewWakeUp
  /\ (~looper.inLoopBody /\ ~looper'.inLoopBody
        /\ (looper.loopCallbackScheduled \/ looper.timeoutScheduled))
       => ~NewWakeUp
  /\ (looper.inLoopBody /\ ~looper'.inLoopBody /\ looper'.running
        /\ looper.pacingFunc /\ looper.pacingTimer
        /\ looper'.nextPacingTime # 0)
       => (looper'.timeoutScheduled /\ ~looper'.loopCallbackScheduled)
  /\ (looper.timeoutScheduled /\ ~looper'.timeoutScheduled)
       => ((BodyBegins /\ looper'.fromTimer) \/ ~looper'.running)
  /\ (BodyBegins /\ looper.timeoutScheduled) => looper'.fromTimer

Waiting == looper.running /\ looper.evb /\ ~looper.inLoopBody

\* C37: the looper does not stall: whenever it runs, is attached to an
\* event base and is not in its body, a loop callback or a pacing timeout
\* is pending; with an event base and a timer that fire what they hold, the
\* looped function is called again unless the looper is stopped or
\* detached.
C37_RunningLooperIsWoken ==
  /\ [](Waiting => (looper.loopCallbackScheduled \/ looper.timeoutScheduled))
  /\ \A k \in 0..(MaxLoops - 1) :
       (Waiting /\ looper.fired = k) ~> (looper.fired > k \/ ~looper.running)

\* A looper without pacing waits for its loop callback after two bodies.
C37_Witness ==
  /\ Waiting
  /\ looper.fired = 2
  /\ ~looper.pacingTimer
  /\ looper.loopCallbackScheduled
  /\ ~looper.timeoutScheduled
  /\ ~looper.fromTimer

WrittenTo(socket) ==
  \E i \in 1..Len(flushLog'.writes) : flushLog'.writes[i].socket = socket

\* The step has written the batch to the socket and the write has failed
\* with an error that is not retriable.
FailedFatally(socket) ==
  \E i \in 1..Len(flushLog'.writes) :
    /\ flushLog'.writes[i].socket = socket
    /\ flushLog'.writes[i].outcome # "ok"
    /\ ~isRetriableError(flushLog'.writes[i].outcome)

\* The step has started the second socket: the delay before its start was
\* running and is cancelled.
SecondSocketStarted ==
  /\ happyEyeballsState.connAttemptDelayTimeout = "scheduled"
  /\ happyEyeballsState'.connAttemptDelayTimeout = "cancelled"

\* What a flush does to a socket that is not the one it starts.
EligibilityStep(should, shouldAfter, pausedAfter, socket) ==
  /\ shouldAfter => should
  /\ WrittenTo(socket) => should
  /\ (should /\ ~shouldAfter) => (FailedFatally(socket) /\ pausedAfter)

\* C39 as stated: no flush turns shouldWriteToFirstSocket or
\* shouldWriteToSecondSocket from false to true, a socket that is not
\* eligible is not written to by a later flush, a socket stops being
\* eligible only when a write to it has failed with an error that is not
\* retriable, its read side being paused then, and both sockets are
\* ineligible only through a fatal signal.
C39_EligibilityOnlyDecreases ==
  [][/\ EligibilityStep(happyEyeballsState.shouldWriteToFirstSocket,
                        happyEyeballsState'.shouldWriteToFirstSocket,
                        readPaused'.first, "first")
     /\ EligibilityStep(happyEyeballsState.shouldWriteToSecondSocket,
                        happyEyeballsState'.shouldWriteToSecondSocket,
                        readPaused'.second, "second")
     /\ (/\ ~happyEyeballsState'.shouldWriteToFirstSocket
         /\ ~happyEyeballsState'.shouldWriteToSecondSocket)
          => flushLog'.thrown # NoException]_vars

\* C39, amended: no flush turns shouldWriteToFirstSocket from false to
\* true, and shouldWriteToSecondSocket turns from false to true in a flush
\* only when the flush starts the second socket, the first socket not
\* having taken the batch while the delayed start was pending; a socket
\* that a failed write has made ineligible is not written to by a later
\* flush; a socket stops being eligible only when a write to it has failed
\* with an error that is not retriable, its read side being paused then; and
\* both sockets are ineligible only through a fatal signal.
C39_EligibilityDecreasesButForTheStart ==
  [][/\ EligibilityStep(happyEyeballsState.shouldWriteToFirstSocket,
                        happyEyeballsState'.shouldWriteToFirstSocket,
                        readPaused'.first, "first")
     /\ EligibilityStep(happyEyeballsState.shouldWriteToSecondSocket
                          \/ SecondSocketStarted,
                        happyEyeballsState'.shouldWriteToSecondSocket,
                        readPaused'.second, "second")
     /\ (SecondSocketStarted /\ ~happyEyeballsState.shouldWriteToSecondSocket)
          => (/\ WrittenTo("second")
              /\ flushLog'.writes[1] # [socket |-> "first", outcome |-> "ok"])
     /\ \A socket \in {"first", "second"} :
          readPaused[socket] => ~WrittenTo(socket)
     /\ (/\ ~happyEyeballsState'.shouldWriteToFirstSocket
         /\ ~happyEyeballsState'.shouldWriteToSecondSocket)
          => flushLog'.thrown # NoException]_vars

\* The first socket has failed for good in a flush that started the second
\* socket; a later flush writes to the second socket only.
C39_Witness ==
  /\ ~happyEyeballsState.shouldWriteToFirstSocket
  /\ readPaused.first
  /\ happyEyeballsState.shouldWriteToSecondSocket
  /\ ~readPaused.second
  /\ happyEyeballsState.connAttemptDelayTimeout = "cancelled"
  /\ flushLog.flushed
  /\ flushLog.writes = <<[socket |-> "second", outcome |-> "ok"]>>
  /\ flushLog.thrown = NoException

\* implicitAckCryptoStream has been called for the level in this step.
ImplicitAckCalled(level) == implicitAck'[level].calls # implicitAck[level].calls

\* The outstanding packets of a space, in their order.
OutstandingOf(packets, space) == SelectSeq(packets, LAMBDA op : op.space = space)

\* implicitAckCryptoStream has been called in this step for the level of
\* the space while a packet of the space was outstanding.
AckedImplicitly(space) ==
  \E level \in EncryptionLevels :
    /\ ImplicitAckCalled(level)
    /\ SpaceOfLevel(level) = space
    /\ OutstandingNums(outstandings, space) # {}

ImplicitAckFrameStep ==
  /\ \A level \in EncryptionLevels :
       (ImplicitAckCalled(level) /\ ~AckedImplicitly(SpaceOfLevel(level))) =>
         /\ streams'[CryptoStreamOf(SpaceOfLevel(level))] =
              streams[CryptoStreamOf(SpaceOfLevel(level))]
         /\ conn'.ackStates = conn.ackStates
         /\ implicitAck'[level].ackBlock = NoAckBlock
         /\ implicitAck'[level].acked = {}
         /\ checkFailed' = None
         /\ (\A other \in EncryptionLevels \ {level} : ~ImplicitAckCalled(other))
              => outstandings' = outstandings
  /\ (\E level \in EncryptionLevels : ImplicitAckCalled(level)) =>
       \A space \in PacketNumberSpaces :
         ~AckedImplicitly(space) =>
           OutstandingOf(outstandings', space) = OutstandingOf(outstandings, space)

====
